---- MODULE Spec2Model ----
(***************************************************************************)
(* Letterbox image proxy (rust/letterbox-proxy): the proxy core of lib.rs  *)
(* (state cell, LRU cache, single fetch, batch fetch), the fetcher of      *)
(* http.rs, the content-type policy and the configuration store of         *)
(* config.rs, the provisioner of provisioning.rs, the transport of         *)
(* transport.rs and the tunnel of tunnel.rs.                               *)
(*                                                                         *)
(* Strings that the code transforms (content types) are sequences of       *)
(* one-character strings; strings that the code only compares and copies   *)
(* (URLs, error texts) are TLA+ strings.  Option<T> is a sequence of       *)
(* length 0 (None) or 1 (Some).                                            *)
(***************************************************************************)
EXTENDS Integers, Sequences, FiniteSets, TLC

\* ------------------------------------------------------------------------
\* Bounds of the model
\* ------------------------------------------------------------------------

\* longest URL list handed to proxy_fetch_images_batch
MaxUrls == 2

\* number of threads of the host application calling proxy_fetch_image
NumCallers == 2

\* longest RX and TX queue of the tunnel's virtual device, and most UDP
\* datagrams waiting at the socket when the transport is polled
MaxQueue == 2

\* ------------------------------------------------------------------------
\* Program constants
\* ------------------------------------------------------------------------

\* FetchLimits::default().max_size, 10 * 1024 * 1024
MAX_SIZE == 10485760

\* the cap on the batch semaphore, std::cmp::min(max_concurrent, 32)
MAX_BATCH_PERMITS == 32

\* tunnel.rs: the size of the socket storage
MAX_TCP_CONNECTIONS == 16

\* fallback LRU capacity when max_cache_size is 0
DEFAULT_CACHE_SIZE == 100

\* ------------------------------------------------------------------------
\* Option<T>
\* ------------------------------------------------------------------------
None == <<>>

Some(x) == <<x>>

IsSome(o) == Len(o) = 1

IsNone(o) == Len(o) = 0

Unwrap(o) == o[1]

Min(a, b) == IF a <= b THEN a ELSE b

\* ------------------------------------------------------------------------
\* Strings as character sequences (content types)
\* ------------------------------------------------------------------------
Upper == <<"A","B","C","D","E","F","G","H","I","J","K","L","M",
           "N","O","P","Q","R","S","T","U","V","W","X","Y","Z">>

Lower == <<"a","b","c","d","e","f","g","h","i","j","k","l","m",
           "n","o","p","q","r","s","t","u","v","w","x","y","z">>

Whitespace == {" "}

LowerChar(c) ==
    IF \E i \in 1..Len(Upper) : Upper[i] = c
    THEN Lower[CHOOSE i \in 1..Len(Upper) : Upper[i] = c]
    ELSE c

\* str::to_lowercase
ToLowercase(s) == [i \in 1..Len(s) |-> LowerChar(s[i])]

\* s.split(';').next(): the part before the first ';'
SplitSemiFirst(s) ==
    IF \E i \in 1..Len(s) : s[i] = ";"
    THEN SubSeq(s, 1, (CHOOSE i \in 1..Len(s) :
                          s[i] = ";" /\ \A j \in 1..(i-1) : s[j] # ";") - 1)
    ELSE s

\* str::trim: leading and trailing whitespace removed
Trim(s) ==
    IF \A i \in 1..Len(s) : s[i] \in Whitespace
    THEN <<>>
    ELSE LET f == CHOOSE i \in 1..Len(s) :
                      s[i] \notin Whitespace /\ \A j \in 1..(i-1) : s[j] \in Whitespace
             l == CHOOSE i \in 1..Len(s) :
                      s[i] \notin Whitespace /\ \A j \in (i+1)..Len(s) : s[j] \in Whitespace
         IN SubSeq(s, f, l)

\* str::starts_with
StartsWith(s, p) == Len(s) >= Len(p) /\ SubSeq(s, 1, Len(p)) = p

CT_IMAGE_PREFIX == <<"i","m","a","g","e","/">>

CT_JPEG == <<"i","m","a","g","e","/","j","p","e","g">>

CT_PNG == <<"i","m","a","g","e","/","p","n","g">>

CT_GIF == <<"i","m","a","g","e","/","g","i","f">>

CT_WEBP == <<"i","m","a","g","e","/","w","e","b","p">>

CT_SVG == <<"i","m","a","g","e","/","s","v","g","+","x","m","l">>

CT_BMP == <<"i","m","a","g","e","/","b","m","p">>

CT_XICON == <<"i","m","a","g","e","/","x","-","i","c","o","n">>

CT_MSICON == <<"i","m","a","g","e","/","v","n","d",".","m","i","c","r","o","s","o","f","t",
               ".","i","c","o","n">>

CT_OCTET == <<"a","p","p","l","i","c","a","t","i","o","n","/","o","c","t","e","t","-",
              "s","t","r","e","a","m">>

CT_HTML == <<"t","e","x","t","/","h","t","m","l">>

\* "IMAGE/PNG; charset=foo", the header of spec scenario 4
CT_PNG_PARAM == <<"I","M","A","G","E","/","P","N","G",";"," ","c","h","a","r","s","e","t",
                  "=","f","o","o">>

\* FetchLimits::default().allowed_content_types
DefaultAllowedContentTypes ==
    <<CT_JPEG, CT_PNG, CT_GIF, CT_WEBP, CT_SVG, CT_BMP, CT_XICON, CT_MSICON>>

\* FetchLimits::default()
DefaultFetchLimits ==
    [max_size |-> MAX_SIZE, max_redirects |-> 5, timeout_seconds |-> 30,
     allowed_content_types |-> DefaultAllowedContentTypes]

\* FetchLimits::is_content_type_allowed
is_content_type_allowed(limits, content_type) ==
    IF Len(limits.allowed_content_types) = 0
    THEN StartsWith(content_type, CT_IMAGE_PREFIX)
    ELSE LET normalized == ToLowercase(Trim(SplitSemiFirst(content_type)))
         IN \E i \in 1..Len(limits.allowed_content_types) :
                ToLowercase(limits.allowed_content_types[i]) = normalized

\* ------------------------------------------------------------------------
\* URLs
\* ------------------------------------------------------------------------
ValidUrls == {"https://host/a", "https://host/b", "http://host/c"}

InvalidUrls == {"", "not-a-url", "ftp://host/x"}

Urls == ValidUrls \cup InvalidUrls

\* url::Url::parse, as far as fetch_image_internal uses it: whether the string
\* parses as an absolute URL, and its scheme
UrlParse(u) ==
    CASE u = "https://host/a" -> [ok |-> TRUE, scheme |-> "https"]
      [] u = "https://host/b" -> [ok |-> TRUE, scheme |-> "https"]
      [] u = "http://host/c" -> [ok |-> TRUE, scheme |-> "http"]
      [] u = "ftp://host/x" -> [ok |-> TRUE, scheme |-> "ftp"]
      [] OTHER -> [ok |-> FALSE, scheme |-> ""]

\* where the origin server redirects a request for u (a response's final URL is
\* either u itself or this)
RedirectTarget(u) ==
    CASE u = "https://host/a" -> "https://cdn/a"
      [] u = "https://host/b" -> "https://cdn/b"
      [] u = "http://host/c" -> "https://cdn/c"
      [] OTHER -> u

\* ------------------------------------------------------------------------
\* Errors and results
\* ------------------------------------------------------------------------

\* ProxyError: kind is the variant; code is status_code, size or count; url and
\* ct are the variant's string fields
Err(kind, code, url, ct) == [kind |-> kind, code |-> code, url |-> url, ct |-> ct]

\* the #[error("...")] format of each variant
ErrorFormat(kind) ==
    CASE kind = "NotInitialized" -> "Proxy not initialized"
      [] kind = "InvalidUrl" -> "Invalid URL '{url}': {details}"
      [] kind = "HttpError" -> "HTTP error: {status_code} - {details}"
      [] kind = "InvalidContentType" -> "Invalid content type: expected image, got {content_type}"
      [] kind = "ResponseTooLarge" -> "Response too large: {size} bytes (max: {max_size})"
      [] kind = "TooManyRedirects" -> "Too many redirects: {count} (max: {max_count})"
      [] kind = "Timeout" -> "Connection timeout after {seconds} seconds"
      [] OTHER -> "{details}"

\* e.to_string(): the variant's format with its fields
ErrorToString(e) == [format |-> ErrorFormat(e.kind), code |-> e.code, url |-> e.url, ct |-> e.ct]

\* format!("Task panicked: {}", e) for a JoinError
JoinErrorToString == [format |-> "Task panicked: {}", code |-> 0, url |-> "", ct |-> <<>>]

\* Result<ImageResponse, ProxyError>
OkResult(resp) == [ok |-> TRUE, resp |-> Some(resp), err |-> None]

ErrResult(e) == [ok |-> FALSE, resp |-> None, err |-> Some(e)]

\* ------------------------------------------------------------------------
\* The origin server and the reqwest client, as fetch_image_with_limits sees them
\* ------------------------------------------------------------------------

\* a response body: the bytes are identified by the URL they were served for and
\* a version (the server may serve different bytes at different times); len is
\* the number of bytes
Body(u, ver, len) == [src |-> u, ver |-> ver, len |-> len]

HttpResponse(status, ct, clen, final, body) ==
    [status |-> status, content_type |-> ct, content_length |-> clen,
     final_url |-> final, body |-> body]

\* the responses the origin may give to a GET of u
ServerResponses(u) ==
    { HttpResponse(200, Some(CT_PNG), Some(8), u, Body(u, 1, 8)),
      HttpResponse(200, Some(CT_PNG_PARAM), None, RedirectTarget(u), Body(u, 2, MAX_SIZE)),
      HttpResponse(404, Some(CT_PNG), Some(8), u, Body(u, 3, 8)),
      HttpResponse(200, Some(CT_HTML), Some(8), u, Body(u, 4, 8)),
      HttpResponse(200, None, Some(8), u, Body(u, 5, 8)),
      HttpResponse(200, Some(CT_PNG), Some(MAX_SIZE + 1), u, Body(u, 6, MAX_SIZE + 1)),
      HttpResponse(200, Some(CT_PNG), None, u, Body(u, 7, MAX_SIZE + 1)) }

\* what client.get(url).send().await yields: a response, or a reqwest error that
\* is a timeout, a redirect-policy error, or any other error
SendOutcomes(u) ==
    { [kind |-> "response", resp |-> r] : r \in ServerResponses(u) }
    \cup { [kind |-> k, resp |-> HttpResponse(0, None, None, u, Body(u, 0, 0))] :
             k \in {"timeout", "redirect", "other"} }

\* ------------------------------------------------------------------------
\* http.rs: fetch_image_with_limits, up to and after its two suspension points
\* ------------------------------------------------------------------------

\* StatusCode::is_success
is_success(status) == status >= 200 /\ status <= 299

ImageResponse(mime, data, from_cache, final) ==
    [mime_type |-> mime, data |-> data, from_cache |-> from_cache, final_url |-> final]

\* the mime type the fetcher derives from the Content-Type header
MimeOfHeader(content_type) ==
    Trim(SplitSemiFirst(IF IsSome(content_type) THEN Unwrap(content_type) ELSE CT_OCTET))

\* the checks of the response head with the content type checked before the
\* status
FetchOnSendTypeFirst(url, limits, o) ==
    LET r == o.resp
        mime == MimeOfHeader(r.content_type)
        Fail(e) == [done |-> TRUE, result |-> ErrResult(e), pending |-> None]
    IN CASE o.kind = "timeout" -> Fail(Err("Timeout", limits.timeout_seconds, "", <<>>))
         [] o.kind = "redirect" -> Fail(Err("TooManyRedirects", limits.max_redirects, "", <<>>))
         [] o.kind = "other" -> Fail(Err("HttpError", 0, "", <<>>))
         [] OTHER ->
              IF ~is_content_type_allowed(limits, mime)
              THEN Fail(Err("InvalidContentType", 0, "", mime))
              ELSE IF ~is_success(r.status)
              THEN Fail(Err("HttpError", r.status, "", <<>>))
              ELSE IF IsSome(r.content_length) /\ Unwrap(r.content_length) > limits.max_size
              THEN Fail(Err("ResponseTooLarge", Unwrap(r.content_length), "", <<>>))
              ELSE [done |-> FALSE, result |-> ErrResult(Err("", 0, "", <<>>)),
                    pending |-> Some([mime_type |-> mime, final_url |-> r.final_url,
                                      body |-> r.body])]

\* the checks of the response head without the check of the advertised length
FetchOnSendNoLength(url, limits, o) ==
    LET r == o.resp
        mime == MimeOfHeader(r.content_type)
        Fail(e) == [done |-> TRUE, result |-> ErrResult(e), pending |-> None]
    IN CASE o.kind = "timeout" -> Fail(Err("Timeout", limits.timeout_seconds, "", <<>>))
         [] o.kind = "redirect" -> Fail(Err("TooManyRedirects", limits.max_redirects, "", <<>>))
         [] o.kind = "other" -> Fail(Err("HttpError", 0, "", <<>>))
         [] OTHER ->
              IF ~is_success(r.status)
              THEN Fail(Err("HttpError", r.status, "", <<>>))
              ELSE IF ~is_content_type_allowed(limits, mime)
              THEN Fail(Err("InvalidContentType", 0, "", mime))
              ELSE [done |-> FALSE, result |-> ErrResult(Err("", 0, "", <<>>)),
                    pending |-> Some([mime_type |-> mime, final_url |-> r.final_url,
                                      body |-> r.body])]

\* from send().await to the check of the advertised length: either the fetch
\* ends with an error (done) or the body is still to be read (pending)
FetchOnSend(url, limits, o) ==
    LET r == o.resp
        mime == MimeOfHeader(r.content_type)
        Fail(e) == [done |-> TRUE, result |-> ErrResult(e), pending |-> None]
    IN CASE o.kind = "timeout" -> Fail(Err("Timeout", limits.timeout_seconds, "", <<>>))
         [] o.kind = "redirect" -> Fail(Err("TooManyRedirects", limits.max_redirects, "", <<>>))
         [] o.kind = "other" -> Fail(Err("HttpError", 0, "", <<>>))
         [] OTHER ->
              IF ~is_success(r.status)
              THEN Fail(Err("HttpError", r.status, "", <<>>))
              ELSE IF ~is_content_type_allowed(limits, mime)
              THEN Fail(Err("InvalidContentType", 0, "", mime))
              ELSE IF IsSome(r.content_length) /\ Unwrap(r.content_length) > limits.max_size
              THEN Fail(Err("ResponseTooLarge", Unwrap(r.content_length), "", <<>>))
              ELSE [done |-> FALSE, result |-> ErrResult(Err("", 0, "", <<>>)),
                    pending |-> Some([mime_type |-> mime, final_url |-> r.final_url,
                                      body |-> r.body])]

\* the body read without the check of the size read
FetchOnBodyNoSizeCheck(limits, p, read_ok) ==
    IF ~read_ok
    THEN ErrResult(Err("HttpError", 0, "", <<>>))
    ELSE OkResult(ImageResponse(p.mime_type, p.body, FALSE, p.final_url))

\* data.len() after a successful response.bytes().await: bytes() collects the
\* full body of the response before it returns
data_len(p) == p.body.len

\* from response.bytes().await to the end; read_ok: whether the read succeeds
FetchOnBody(limits, p, read_ok) ==
    IF ~read_ok
    THEN ErrResult(Err("HttpError", 0, "", <<>>))
    ELSE IF p.body.len > limits.max_size
    THEN ErrResult(Err("ResponseTooLarge", p.body.len, "", <<>>))
    ELSE OkResult(ImageResponse(p.mime_type, p.body, FALSE, p.final_url))

\* ------------------------------------------------------------------------
\* lru::LruCache<String, ImageResponse>: entries in recency order, most
\* recently used first
\* ------------------------------------------------------------------------
CacheKeys(cache) == { cache[i].key : i \in 1..Len(cache) }

CacheIndex(cache, k) == CHOOSE i \in 1..Len(cache) : cache[i].key = k

CacheWithout(cache, k) == SelectSeq(cache, LAMBDA e : e.key # k)

\* LruCache::peek in place of get: the value, the recency order left alone
LruPeek(cache, k) ==
    IF k \in CacheKeys(cache)
    THEN [value |-> Some(cache[CacheIndex(cache, k)].value), cache |-> cache]
    ELSE [value |-> None, cache |-> cache]

\* LruCache::get: the value, and the entry moved to the front
LruGet(cache, k) ==
    IF k \in CacheKeys(cache)
    THEN [value |-> Some(cache[CacheIndex(cache, k)].value),
          cache |-> <<cache[CacheIndex(cache, k)]>> \o CacheWithout(cache, k)]
    ELSE [value |-> None, cache |-> cache]

\* an insert that leaves the value of an existing key as it is
LruPutIfAbsent(cache, cap, k, v) ==
    IF k \in CacheKeys(cache)
    THEN <<cache[CacheIndex(cache, k)]>> \o CacheWithout(cache, k)
    ELSE IF Len(cache) >= cap
    THEN <<[key |-> k, value |-> v]>> \o SubSeq(cache, 1, cap - 1)
    ELSE <<[key |-> k, value |-> v]>> \o cache

\* LruCache::put: an existing key is updated and moved to the front; a new key
\* evicts the entry at the back when the cache is full
LruPut(cache, cap, k, v) ==
    IF k \in CacheKeys(cache)
    THEN <<[key |-> k, value |-> v]>> \o CacheWithout(cache, k)
    ELSE IF Len(cache) >= cap
    THEN <<[key |-> k, value |-> v]>> \o SubSeq(cache, 1, cap - 1)
    ELSE <<[key |-> k, value |-> v]>> \o cache

\* ------------------------------------------------------------------------
\* State
\* ------------------------------------------------------------------------

\* batch tasks are threads 1..MaxUrls (task i fetches the i-th URL of the
\* batch); the callers of proxy_fetch_image are the threads after them
Tasks == 1..MaxUrls

Callers == (MaxUrls + 1)..(MaxUrls + NumCallers)

Threads == Tasks \cup Callers

VARIABLES
    proxy,      \* PROXY_STATE: None, or Some(ProxyState)
    pc,         \* per thread: where it is in fetch_image_internal / the task
    turl,       \* per thread: the url argument
    pending,    \* per thread: the response whose body is still to be read
    tres,       \* per thread: what fetch_image_internal returned (None before)
    usedNet,    \* per thread: whether this fetch issued a network request
    thdrs,      \* per thread: the caller's headers that reach the fetcher
    bpc,        \* the batch call: "idle", "running", "returned", "panicked"
    burls,      \* the batch call's urls
    bmc,        \* the batch call's max_concurrent
    permits,    \* available permits of the batch semaphore
    joined,     \* per task: what its JoinHandle yields (None while running)
    results,    \* the batch call's results vector
    bret,       \* what the batch call returned: None, or Some("Ok") / Some("Err")
    useLog,     \* history: the URLs in order of their last use of the cache
    firstRet,   \* history, per URL: the response of the earliest successful fetch
                \* on the initialized proxy since the URL last left the cache
    lastRet,    \* history, per URL: the response of the latest such fetch
    finishOrder, \* history: the batch's tasks in the order in which they ended
    lastStep,   \* history: the API call or internal step taken last, with what
                \* it returned
    live,       \* history: whether a proxy_init has created the state after the
                \* most recent proxy_shutdown
    fresh,      \* history: the URLs inserted into the cache since the state was
                \* last created
    cancelled,  \* history: the batch's tasks (in SpecStale: the fetches) that
                \* had not ended when a proxy_shutdown emptied the state cell
    ctCheck,    \* a call of is_content_type_allowed: its limits, its argument
                \* and its result (None before the call)
    store,      \* the storage directory with warp_config.json, the ProxyConfig
                \* object of the process, a save in progress, the last reload
    prov,       \* a call of WarpProvisioner::provision_new_account: where it
                \* is, what it holds, the requests it has sent, what it returned
    wt,         \* a WarpTunnel with its transport, its device queues and the
                \* UDP socket
    lock        \* the RwLock of the state cell: None when free, Some(t) while
                \* the fetch of thread t holds its write guard

fetchVars == <<pc, turl, pending, tres, usedNet, thdrs>>

batchVars == <<bpc, burls, bmc, permits, joined, results, bret>>

histVars == <<useLog, firstRet, lastRet, finishOrder, lastStep, live, fresh, cancelled>>

vars == <<proxy, pc, turl, pending, tres, usedNet, thdrs, bpc, burls, bmc, permits,
          joined, results, bret, useLog, firstRet, lastRet, finishOrder, lastStep,
          live, fresh, cancelled, ctCheck, store, prov, wt, lock>>

\* the state of the configuration store, the provisioner and the tunnel, and
\* the lock of the state cell
sideVars == <<store, prov, wt, lock>>

\* ProxyConfig, as load_or_create builds it from what warp_config.json holds
ProxyConfig(path, stored) ==
    [storage_path |-> path,
     warp_config |-> stored,
     warp_enabled |-> IF IsSome(stored) THEN Unwrap(stored).warp_enabled ELSE FALSE,
     endpoint_host |-> IF IsSome(stored) THEN Some(Unwrap(stored).endpoint_host) ELSE None,
     max_image_size |-> MAX_SIZE, max_redirects |-> 5, timeout_seconds |-> 30]

\* the storage paths the host passes, and what warp_config.json may hold there
StoragePaths == {"/data/proxy"}

StoredConfigs ==
    { None,
      Some([endpoint_host |-> "engage.cloudflareclient.com", warp_enabled |-> TRUE]) }

\* a capacity that is the argument as it is
CacheCapacityAsGiven(max_cache_size) == max_cache_size

\* NonZeroUsize::new(max_cache_size).unwrap_or(100)
CacheCapacity(max_cache_size) ==
    IF max_cache_size = 0 THEN DEFAULT_CACHE_SIZE ELSE max_cache_size

ProxyState(config, cap) ==
    [config |-> config, tunnel |-> None, cache |-> <<>>, cap |-> cap, last_error |-> None]

\* the cache of the state cell (empty when the cell is)
CacheOf(p) == IF IsSome(p) THEN Unwrap(p).cache ELSE <<>>

\* ProxyConfig::default() with the storage path set: no credentials
EmptyConfig == [warp_config |-> None, warp_enabled |-> FALSE, endpoint_host |-> None]

\* store after the first load_or_create on an empty directory: the directory
\* exists, warp_config.json does not; no save is in progress
NoStore ==
    [dir |-> TRUE, file |-> None, config |-> EmptyConfig, spc |-> "idle", buf |-> <<>>,
     ret |-> "", loaded |-> None, persisted |-> None]

\* prov before provision_new_account is called
NoProv ==
    [pc |-> "idle", private_key |-> <<>>, account |-> None, config |-> None,
     requests |-> <<>>, result |-> "", out |-> None]

\* a TunnResult of decapsulate: WriteToNetwork(packet), WriteToTunnelV4(packet),
\* WriteToTunnelV6(packet), Done or Err
TunnResult(kind, packet) == [kind |-> kind, packet |-> packet]

\* the transport before a poll.  pc: "idle", "recv" (at recv_from) or "loop"
\* (at the match on result); result: the TunnResult in hand; packets: the
\* local vector of poll; udp: the packets handed to send_to; calls: the inputs
\* decapsulate was called with for the datagram in hand; received: the
\* datagrams received so far; ret, returned: what poll returned.  produced and
\* written record the payloads and the network packets that the machine has
\* yielded in this poll, errors the datagrams that ended with Err
NoPoll ==
    [pc |-> "idle", result |-> TunnResult("Done", ""), packets |-> <<>>,
     udp |-> <<>>, calls |-> <<>>, received |-> 0, ret |-> "", returned |-> <<>>,
     produced |-> <<>>, written |-> <<>>, errors |-> 0]

\* the device seen from the stack.  token: an RX token has been handed out and
\* not consumed; delivered: the packets that consume has passed to the stack;
\* unreachable: consume has found the queue empty
NoDevice == [token |-> FALSE, delivered |-> <<>>, unreachable |-> FALSE]

\* wt after WarpTunnel::new: no handshake done, connected false, the device's
\* queues empty, nothing sent, the transport not polling; sockets: the sockets
\* in the socket set, closed: those of them that tcp_close was called on,
\* buffers: the TCP buffers allocated and not freed
NoTunnel ==
    [pc |-> "idle", connected |-> FALSE, initiated |-> FALSE, session |-> FALSE,
     rx_queue |-> <<>>, tx_queue |-> <<>>, sent |-> <<>>, sockets |-> 0,
     closed |-> 0, buffers |-> 0, tp |-> NoPoll, dev |-> NoDevice]

\* lastStep before any step
NoStep ==
    [op |-> "none", arg |-> 0, ret |-> "", status |-> <<>>, headers |-> <<>>,
     resp |-> <<>>, pre |-> 0]

\* ctCheck when no call of is_content_type_allowed is under consideration
NoCheck == [limits |-> DefaultFetchLimits, input |-> <<>>, result |-> None]

InitProgram ==
    /\ proxy = None
    /\ pc = [t \in Threads |-> "idle"]
    /\ turl = [t \in Threads |-> ""]
    /\ pending = [t \in Threads |-> None]
    /\ tres = [t \in Threads |-> None]
    /\ usedNet = [t \in Threads |-> FALSE]
    /\ thdrs = [t \in Threads |-> {}]
    /\ bpc = "idle"
    /\ burls = <<>>
    /\ bmc = 0
    /\ permits = 0
    /\ joined = [t \in Tasks |-> None]
    /\ results = <<>>
    /\ bret = None
    /\ useLog = <<>>
    /\ firstRet = [u \in ValidUrls |-> None]
    /\ lastRet = [u \in ValidUrls |-> None]
    /\ finishOrder = <<>>
    /\ lastStep = NoStep
    /\ live = FALSE
    /\ fresh = {}
    /\ cancelled = {}
    /\ store = NoStore
    /\ prov = NoProv
    /\ wt = NoTunnel
    /\ lock = None

Init == InitProgram /\ ctCheck = NoCheck

\* ------------------------------------------------------------------------
\* Lifecycle
\* ------------------------------------------------------------------------

\* a proxy_init that builds the state anew whenever the storage is usable
proxy_initAlways(path, max_cache_size, stored, storage_ok) ==
    /\ IF ~storage_ok
       THEN UNCHANGED proxy
       ELSE proxy' = Some(ProxyState(ProxyConfig(path, stored),
                                     CacheCapacity(max_cache_size)))
    /\ UNCHANGED <<fetchVars, batchVars>>

\* proxy_init: a no-op when the cell is populated; when load_or_create fails
\* with StorageError (the directory cannot be created) the cell stays empty
proxy_init(path, max_cache_size, stored, storage_ok) ==
    /\ IF IsSome(proxy) \/ ~storage_ok
       THEN UNCHANGED proxy
       ELSE proxy' = Some(ProxyState(ProxyConfig(path, stored),
                                     CacheCapacity(max_cache_size)))
    /\ UNCHANGED <<fetchVars, batchVars>>

\* what proxy_init returns: Ok(()) when the cell is populated or the state was
\* created, the StorageError of load_or_create otherwise
proxy_init_result(p, storage_ok) ==
    IF IsSome(p) THEN "Ok" ELSE IF storage_ok THEN "Ok" ELSE "StorageError"

\* a status that reports the capacity of the cache as its size
proxy_statusCapacity(p) ==
    IF IsSome(p)
    THEN [ready |-> TRUE,
          warp_enabled |-> Unwrap(p).config.warp_enabled,
          endpoint |-> Unwrap(p).config.endpoint_host,
          last_error |-> Unwrap(p).last_error,
          cache_size |-> Unwrap(p).cap]
    ELSE [ready |-> FALSE, warp_enabled |-> FALSE, endpoint |-> None,
          last_error |-> Some("Proxy not initialized"), cache_size |-> 0]

\* proxy_status: the ProxyStatus built under the read lock
proxy_status(p) ==
    IF IsSome(p)
    THEN [ready |-> TRUE,
          warp_enabled |-> Unwrap(p).config.warp_enabled,
          endpoint |-> Unwrap(p).config.endpoint_host,
          last_error |-> Unwrap(p).last_error,
          cache_size |-> Len(Unwrap(p).cache)]
    ELSE [ready |-> FALSE, warp_enabled |-> FALSE, endpoint |-> None,
          last_error |-> Some("Proxy not initialized"), cache_size |-> 0]

\* the call of proxy_status: it reads the cell and changes nothing
StatusCall == UNCHANGED <<proxy, fetchVars, batchVars>>

\* a shutdown that empties the cache and keeps the cell
proxy_shutdownKeepCell ==
    /\ IF IsSome(proxy)
       THEN proxy' = Some([Unwrap(proxy) EXCEPT !.cache = <<>>])
       ELSE UNCHANGED proxy
    /\ UNCHANGED <<fetchVars, batchVars>>

\* proxy_shutdown: guard.take()
proxy_shutdown ==
    /\ proxy' = None
    /\ UNCHANGED <<fetchVars, batchVars>>

\* a clear_cache that builds a new state with the default configuration
proxy_clear_cacheReset ==
    /\ IF IsSome(proxy)
       THEN proxy' = Some(ProxyState(ProxyConfig(Unwrap(proxy).config.storage_path, None),
                                     Unwrap(proxy).cap))
       ELSE UNCHANGED proxy
    /\ UNCHANGED <<fetchVars, batchVars>>

\* proxy_clear_cache: cache.clear() when the cell is populated
proxy_clear_cache ==
    /\ IF IsSome(proxy)
       THEN proxy' = Some([Unwrap(proxy) EXCEPT !.cache = <<>>])
       ELSE UNCHANGED proxy
    /\ UNCHANGED <<fetchVars, batchVars>>

\* ------------------------------------------------------------------------
\* fetch_image_internal, step by step (a step ends at an await)
\* ------------------------------------------------------------------------

\* the validation without the check of the scheme
ValidateUrlNoScheme(u) ==
    IF ~UrlParse(u).ok
    THEN Some(Err("InvalidUrl", 0, u, <<>>))
    ELSE None

\* the URL validation: Some(error) when the URL is rejected
ValidateUrl(u) ==
    IF ~UrlParse(u).ok
    THEN Some(Err("InvalidUrl", 0, u, <<>>))
    ELSE IF UrlParse(u).scheme # "http" /\ UrlParse(u).scheme # "https"
    THEN Some(Err("InvalidUrl", 0, u, <<>>))
    ELSE None

\* the custom headers handed on to the fetcher as its own argument
RequestHeadersForwarded(headers) == IF IsSome(headers) THEN Unwrap(headers) ELSE {}

\* what of the _headers argument fetch_image_internal hands on to the fetcher:
\* nothing, the argument is not used and fetch_image_simple takes the URL alone
RequestHeaders(headers) == {}

\* the request the fetcher builds for url, extra being the caller's headers that
\* reached it
HttpRequest(url, extra) ==
    [method |-> "GET", url |-> url,
     headers |-> {<<"Accept", "image/*">>,
                  <<"User-Agent", "Mozilla/5.0 (compatible; ImageProxy/1.0)">>} \cup extra,
     referer |-> FALSE]

\* entry into fetch_image_internal(u, headers): validation, up to
\* state.write().await
EnterFetch(t, u, headers) ==
    /\ turl' = [turl EXCEPT ![t] = u]
    /\ thdrs' = [thdrs EXCEPT ![t] = RequestHeaders(headers)]
    /\ usedNet' = [usedNet EXCEPT ![t] = FALSE]
    /\ pending' = [pending EXCEPT ![t] = None]
    /\ IF IsSome(ValidateUrl(u))
       THEN /\ pc' = [pc EXCEPT ![t] = "done"]
            /\ tres' = [tres EXCEPT ![t] = Some(ErrResult(Unwrap(ValidateUrl(u))))]
       ELSE /\ pc' = [pc EXCEPT ![t] = "lookup"]
            /\ tres' = [tres EXCEPT ![t] = None]

\* a cache hit that returns the cached response as it is stored
HitResponseClone(cached) == cached

\* the response built on a cache hit
HitResponse(cached) == ImageResponse(cached.mime_type, cached.data, TRUE, cached.final_url)

\* the cache lookup under the write lock: a hit returns, a miss goes on to the
\* network; an empty state cell is a miss
CacheLookup(t) ==
    /\ pc[t] = "lookup"
    /\ LET got == LruGet(CacheOf(proxy), turl[t])
       IN IF IsSome(proxy) /\ IsSome(got.value)
          THEN /\ proxy' = Some([Unwrap(proxy) EXCEPT !.cache = got.cache])
               /\ pc' = [pc EXCEPT ![t] = "done"]
               /\ tres' = [tres EXCEPT ![t] = Some(OkResult(HitResponse(Unwrap(got.value))))]
          ELSE /\ pc' = [pc EXCEPT ![t] = "send"]
               /\ UNCHANGED <<proxy, tres>>
    /\ UNCHANGED <<turl, pending, usedNet, thdrs, batchVars>>

\* the path the request of a fetch takes, p being the state cell: the reqwest
\* client of fetch_image_simple, on the host's own network stack, whatever the
\* tunnel slot holds
FetchRoute(p) == "direct"

\* http::fetch_image_simple, first part: the request is sent and the response
\* head is checked
NetSend(t, o) ==
    /\ pc[t] = "send"
    /\ LET f == FetchOnSend(turl[t], DefaultFetchLimits, o)
       IN IF f.done
          THEN /\ pc' = [pc EXCEPT ![t] = "done"]
               /\ tres' = [tres EXCEPT ![t] = Some(f.result)]
               /\ UNCHANGED pending
          ELSE /\ pc' = [pc EXCEPT ![t] = "body"]
               /\ pending' = [pending EXCEPT ![t] = f.pending]
               /\ UNCHANGED tres
    /\ usedNet' = [usedNet EXCEPT ![t] = TRUE]
    /\ UNCHANGED <<proxy, turl, thdrs, batchVars>>

\* http::fetch_image_simple, second part: the body is read and its size checked
NetBody(t, read_ok) ==
    /\ pc[t] = "body"
    /\ LET r == FetchOnBody(DefaultFetchLimits, Unwrap(pending[t]), read_ok)
       IN /\ tres' = [tres EXCEPT ![t] = Some(r)]
          /\ pc' = [pc EXCEPT ![t] = IF r.ok THEN "insert" ELSE "done"]
    /\ pending' = [pending EXCEPT ![t] = None]
    /\ UNCHANGED <<proxy, turl, usedNet, thdrs, batchVars>>

\* the cache insert under the write lock (skipped when the cell is empty), and
\* Ok(response)
CacheInsert(t) ==
    /\ pc[t] = "insert"
    /\ pc' = [pc EXCEPT ![t] = "done"]
    /\ IF IsSome(proxy)
       THEN proxy' = Some([Unwrap(proxy) EXCEPT !.cache =
                              LruPut(@, Unwrap(proxy).cap, turl[t],
                                     Unwrap(Unwrap(tres[t]).resp))])
       ELSE UNCHANGED proxy
    /\ UNCHANGED <<turl, pending, tres, usedNet, thdrs, batchVars>>

\* ------------------------------------------------------------------------
\* proxy_fetch_image
\* ------------------------------------------------------------------------

\* a caller thread calls proxy_fetch_image(u, headers)
proxy_fetch_image(t, u, headers) ==
    /\ t \in Callers
    /\ pc[t] = "idle"
    /\ EnterFetch(t, u, headers)
    /\ UNCHANGED <<proxy, batchVars>>

\* rt.block_on returns the result to the caller
FetchReturn(t) ==
    /\ t \in Callers
    /\ pc[t] = "done"
    /\ pc' = [pc EXCEPT ![t] = "idle"]
    /\ turl' = [turl EXCEPT ![t] = ""]
    /\ tres' = [tres EXCEPT ![t] = None]
    /\ usedNet' = [usedNet EXCEPT ![t] = FALSE]
    /\ thdrs' = [thdrs EXCEPT ![t] = {}]
    /\ UNCHANGED <<proxy, pending, batchVars>>

\* ------------------------------------------------------------------------
\* proxy_fetch_images_batch
\* ------------------------------------------------------------------------
BatchImageResult(url, success, response, error) ==
    [url |-> url, success |-> success, response |-> response, error |-> error]

\* the task's match on the result of fetch_image_internal
TaskEntry(url_clone, r) ==
    IF r.ok
    THEN BatchImageResult(url_clone, TRUE, r.resp, None)
    ELSE BatchImageResult(url_clone, FALSE, None, Some(ErrorToString(Unwrap(r.err))))

\* what a JoinHandle yields: Ok(entry), or Err(JoinError) for a task that panicked
JoinOk(entry) == [ok |-> TRUE, entry |-> entry]

JoinErr == [ok |-> FALSE, entry |-> BatchImageResult("", FALSE, None, None)]

\* the permits with max taken for min
SemaphorePermitsMax(max_concurrent) ==
    IF max_concurrent >= MAX_BATCH_PERMITS THEN max_concurrent ELSE MAX_BATCH_PERMITS

\* the permits of the semaphore the batch creates
SemaphorePermits(max_concurrent) == Min(max_concurrent, MAX_BATCH_PERMITS)

\* the call: the runtime is built (Builder::worker_threads panics on 0), the
\* semaphore is created and one task per URL is spawned
proxy_fetch_images_batch(urls, max_concurrent) ==
    /\ bpc = "idle"
    /\ burls' = urls
    /\ bmc' = max_concurrent
    /\ results' = <<>>
    /\ bret' = None
    /\ joined' = [t \in Tasks |-> None]
    /\ IF Min(max_concurrent, 8) = 0
       THEN /\ bpc' = "panicked"
            /\ UNCHANGED <<permits, fetchVars>>
       ELSE /\ bpc' = "running"
            /\ permits' = SemaphorePermits(max_concurrent)
            /\ pc' = [t \in Threads |-> IF t \in 1..Len(urls) THEN "spawned" ELSE pc[t]]
            /\ turl' = [t \in Threads |-> IF t \in 1..Len(urls) THEN urls[t] ELSE turl[t]]
            /\ UNCHANGED <<pending, tres, usedNet, thdrs>>
    /\ UNCHANGED proxy

\* sem.acquire().await, then the task enters fetch_image_internal
TaskAcquire(t) ==
    /\ t \in Tasks
    /\ pc[t] = "spawned"
    /\ permits > 0
    /\ permits' = permits - 1
    /\ EnterFetch(t, turl[t], None)
    /\ UNCHANGED <<proxy, bpc, burls, bmc, joined, results, bret>>

\* the task builds its entry and ends; its permit is dropped
TaskFinish(t) ==
    /\ t \in Tasks
    /\ pc[t] = "done"
    /\ pc' = [pc EXCEPT ![t] = "finished"]
    /\ joined' = [joined EXCEPT ![t] = Some(JoinOk(TaskEntry(turl[t], Unwrap(tres[t]))))]
    /\ permits' = permits + 1
    /\ UNCHANGED <<proxy, turl, pending, tres, usedNet, thdrs, bpc, burls, bmc, results, bret>>

\* the task panics inside the HTTP client; unwinding drops its permit
TaskPanic(t) ==
    /\ t \in Tasks
    /\ pc[t] \in {"send", "body"}
    /\ pc' = [pc EXCEPT ![t] = "finished"]
    /\ pending' = [pending EXCEPT ![t] = None]
    /\ joined' = [joined EXCEPT ![t] = Some(JoinErr)]
    /\ permits' = permits + 1
    /\ UNCHANGED <<proxy, turl, tres, usedNet, thdrs, bpc, burls, bmc, results, bret>>

\* collecting in the order of completion in place of the order of the handles
NextHandleByCompletion(n, k) ==
    IF k + 1 <= Len(finishOrder) THEN finishOrder[k + 1] ELSE k + 1

\* the handle the collecting loop awaits next, of n handles with k collected
NextHandle(n, k) == k + 1

\* a JoinError propagated out of the batch (handle.await?)
CollectJoinPropagate(j) ==
    IF j.ok
    THEN [fail |-> FALSE, entry |-> j.entry]
    ELSE [fail |-> TRUE, entry |-> j.entry]

\* the loop body's match on handle.await: the entry pushed (fail: the error is
\* returned from the batch instead)
CollectJoin(j) ==
    IF j.ok
    THEN [fail |-> FALSE, entry |-> j.entry]
    ELSE [fail |-> FALSE,
          entry |-> BatchImageResult("", FALSE, None, Some(JoinErrorToString))]

\* one iteration of the collecting loop
BatchCollect ==
    /\ bpc = "running"
    /\ Len(results) < Len(burls)
    /\ LET i == NextHandle(Len(burls), Len(results))
       IN /\ IsSome(joined[i])
          /\ IF CollectJoin(Unwrap(joined[i])).fail
             THEN /\ bpc' = "returned"
                  /\ bret' = Some("Err")
                  /\ UNCHANGED results
             ELSE /\ results' = Append(results, CollectJoin(Unwrap(joined[i])).entry)
                  /\ UNCHANGED <<bpc, bret>>
    /\ UNCHANGED <<proxy, fetchVars, burls, bmc, permits, joined>>

\* Ok(results)
BatchReturn ==
    /\ bpc = "running"
    /\ Len(results) = Len(burls)
    /\ bpc' = "returned"
    /\ bret' = Some("Ok")
    /\ UNCHANGED <<proxy, fetchVars, burls, bmc, permits, joined, results>>

\* the caller has the batch's outcome; the runtime and its tasks are dropped
BatchEnd ==
    /\ bpc \in {"returned", "panicked"}
    /\ bpc' = "idle"
    /\ burls' = <<>>
    /\ bmc' = 0
    /\ permits' = 0
    /\ joined' = [t \in Tasks |-> None]
    /\ results' = <<>>
    /\ bret' = None
    /\ pc' = [t \in Threads |-> IF t \in Tasks THEN "idle" ELSE pc[t]]
    /\ turl' = [t \in Threads |-> IF t \in Tasks THEN "" ELSE turl[t]]
    /\ pending' = [t \in Threads |-> IF t \in Tasks THEN None ELSE pending[t]]
    /\ tres' = [t \in Threads |-> IF t \in Tasks THEN None ELSE tres[t]]
    /\ usedNet' = [t \in Threads |-> IF t \in Tasks THEN FALSE ELSE usedNet[t]]
    /\ thdrs' = [t \in Threads |-> IF t \in Tasks THEN {} ELSE thdrs[t]]
    /\ UNCHANGED proxy

\* ------------------------------------------------------------------------
\* History bookkeeping (not program state)
\* ------------------------------------------------------------------------
NoHist == UNCHANGED <<histVars, ctCheck, sideVars>>

\* u was used now: it becomes the last element of the use log
LogUse(log, u) == SelectSeq(log, LAMBDA x : x # u) \o <<u>>

\* the thread whose fetch used the cache in this step (a hit, or an insert into a
\* populated cell), if any
UsedCache(t) ==
    \/ pc[t] = "lookup" /\ pc'[t] = "done"
    \/ pc[t] = "insert" /\ pc'[t] = "done" /\ IsSome(proxy)

\* the use log follows the uses of the cache
HistLru ==
    /\ useLog' = IF \E t \in Threads : UsedCache(t)
                 THEN LogUse(useLog, turl[CHOOSE t \in Threads : UsedCache(t)])
                 ELSE useLog
    /\ UNCHANGED <<firstRet, lastRet, finishOrder, lastStep, live, fresh, cancelled, ctCheck, sideVars>>

\* the responses returned for the URLs still cached after this step
StillCached(ret) ==
    [u \in ValidUrls |-> IF u \in CacheKeys(CacheOf(proxy')) THEN ret[u] ELSE None]

\* firstRet and lastRet follow the successful fetches on the initialized proxy,
\* and forget a URL when it is evicted, cleared or the proxy is shut down
HistIdem ==
    /\ IF \E t \in Threads : UsedCache(t)
       THEN LET t == CHOOSE x \in Threads : UsedCache(x)
                r == Unwrap(tres'[t]).resp
            IN /\ lastRet' = [StillCached(lastRet) EXCEPT ![turl[t]] = r]
               /\ firstRet' = [StillCached(firstRet) EXCEPT ![turl[t]] =
                                  IF IsSome(@) THEN @ ELSE r]
       ELSE /\ lastRet' = StillCached(lastRet)
            /\ firstRet' = StillCached(firstRet)
    /\ UNCHANGED <<useLog, finishOrder, lastStep, live, fresh, cancelled, ctCheck, sideVars>>

\* finishOrder follows the ends of the batch's tasks, and is reset with the batch
HistBatch ==
    /\ finishOrder' =
          IF bpc' = "idle"
          THEN <<>>
          ELSE IF \E t \in Tasks : pc[t] # "finished" /\ pc'[t] = "finished"
          THEN Append(finishOrder, CHOOSE t \in Tasks : pc[t] # "finished" /\ pc'[t] = "finished")
          ELSE finishOrder
    /\ UNCHANGED <<useLog, firstRet, lastRet, lastStep, live, fresh, cancelled, ctCheck, sideVars>>

\* ------------------------------------------------------------------------
\* Actions over their inputs
\* ------------------------------------------------------------------------
InitAny(sizes) ==
    \E path \in StoragePaths, n \in sizes, stored \in StoredConfigs, storage_ok \in BOOLEAN :
        proxy_init(path, n, stored, storage_ok)

\* the headers arguments the host passes: none, an empty map, or a map with a
\* header that identifies the user
HeaderArgs == {None, Some({}), Some({<<"Cookie", "id=1">>})}

CallAny(urls) ==
    \E t \in Callers, u \in urls, headers \in HeaderArgs : proxy_fetch_image(t, u, headers)

ReturnAny == \E t \in Callers : FetchReturn(t)

LookupAny == \E t \in Threads : CacheLookup(t)

\* the outcomes of send() with a client error among errs or a response among vers
OutcomesOf(u, errs, vers) ==
    { o \in SendOutcomes(u) :
        IF o.kind = "response" THEN o.resp.body.ver \in vers ELSE o.kind \in errs }

SendAny(errs, vers) ==
    \E t \in Threads : \E o \in OutcomesOf(turl[t], errs, vers) : NetSend(t, o)

BodyAny == \E t \in Threads, read_ok \in BOOLEAN : NetBody(t, read_ok)

InsertAny == \E t \in Threads : CacheInsert(t)

\* ------------------------------------------------------------------------
\* Spec: the proxy core under concurrent proxy_fetch_image calls, with every
\* outcome of the network and valid and invalid URLs
\* ------------------------------------------------------------------------
CoreUrls == {"https://host/a", "http://host/c", "", "not-a-url", "ftp://host/x"}

CoreCacheSizes == {0, 1}

Next ==
    \/ InitAny(CoreCacheSizes) /\ NoHist
    \/ proxy_shutdown /\ NoHist
    \/ proxy_clear_cache /\ NoHist
    \/ CallAny(CoreUrls) /\ NoHist
    \/ ReturnAny /\ NoHist
    \/ LookupAny /\ NoHist
    \/ SendAny({"timeout", "redirect", "other"}, 1..7) /\ NoHist
    \/ BodyAny /\ NoHist
    \/ InsertAny /\ NoHist

Spec == Init /\ [][Next]_vars

\* ------------------------------------------------------------------------
\* SpecLru: the cache under fetches of three URLs, the server giving one
\* successful response per URL or timing out, with the use log
\* ------------------------------------------------------------------------
LruCacheSizes == {1, 2}

NextLru ==
    \/ InitAny(LruCacheSizes) /\ HistLru
    \/ proxy_shutdown /\ HistLru
    \/ proxy_clear_cache /\ HistLru
    \/ CallAny(ValidUrls) /\ HistLru
    \/ ReturnAny /\ HistLru
    \/ LookupAny /\ HistLru
    \/ SendAny({"timeout"}, {1}) /\ HistLru
    \/ BodyAny /\ HistLru
    \/ InsertAny /\ HistLru

SpecLru == Init /\ [][NextLru]_vars

\* ------------------------------------------------------------------------
\* SpecIdem: repeated and concurrent fetches of the same URLs from a server
\* whose answer changes (two successful responses per URL, or a timeout), with
\* the history of returned responses
\* ------------------------------------------------------------------------
IdemUrls == {"https://host/a", "https://host/b"}

NextIdem ==
    \/ InitAny(LruCacheSizes) /\ HistIdem
    \/ proxy_shutdown /\ HistIdem
    \/ proxy_clear_cache /\ HistIdem
    \/ CallAny(IdemUrls) /\ HistIdem
    \/ ReturnAny /\ HistIdem
    \/ LookupAny /\ HistIdem
    \/ SendAny({"timeout"}, {1, 2}) /\ HistIdem
    \/ BodyAny /\ HistIdem
    \/ InsertAny /\ HistIdem

SpecIdem == Init /\ [][NextIdem]_vars

\* ------------------------------------------------------------------------
\* SpecBatch: batch calls, their tasks, and the lifecycle calls beside them;
\* the server gives a direct or a redirected image, a 404, or times out
\* ------------------------------------------------------------------------
BatchUrls == {"https://host/a", "https://host/b", "ftp://host/x"}

UrlLists == UNION { [1..n -> BatchUrls] : n \in 0..MaxUrls }

MaxConcurrents == {0, 1, 2, 40}

BatchCacheSizes == {1}

NextBatch ==
    \/ InitAny(BatchCacheSizes) /\ HistBatch
    \/ proxy_shutdown /\ HistBatch
    \/ proxy_clear_cache /\ HistBatch
    \/ (\E urls \in UrlLists, mc \in MaxConcurrents : proxy_fetch_images_batch(urls, mc)) /\ HistBatch
    \/ (\E t \in Tasks : TaskAcquire(t)) /\ HistBatch
    \/ (\E t \in Tasks : TaskFinish(t)) /\ HistBatch
    \/ (\E t \in Tasks : TaskPanic(t)) /\ HistBatch
    \/ BatchCollect /\ HistBatch
    \/ BatchReturn /\ HistBatch
    \/ BatchEnd /\ HistBatch
    \/ LookupAny /\ HistBatch
    \/ SendAny({"timeout"}, {1, 2, 3}) /\ HistBatch
    \/ BodyAny /\ HistBatch
    \/ InsertAny /\ HistBatch

SpecBatch == Init /\ [][NextBatch]_vars

\* ------------------------------------------------------------------------
\* Properties of the batch fetch (SpecBatch)
\* ------------------------------------------------------------------------

\* the batch's tasks that are inside fetch_image_internal: past the acquire and
\* not yet ended
InFlight == { t \in Tasks : pc[t] \in {"lookup", "send", "body", "insert", "done"} }

\* task i panicked: it ended without fetch_image_internal having returned
Panicked(i) == pc[i] = "finished" /\ IsNone(tres[i])

\* C1: when proxy_fetch_images_batch returns its list, the list has one entry per
\* input URL and the i-th entry is the outcome of the fetch of the i-th URL (its
\* response, served for that URL, or its error; a failure entry if the task
\* panicked), whatever the order in which the tasks ended.
BatchOrder ==
    (bpc = "returned" /\ bret = Some("Ok")) =>
        /\ Len(results) = Len(burls)
        /\ \A i \in 1..Len(burls) :
             IF IsSome(tres[i])
             THEN /\ turl[i] = burls[i]
                  /\ results[i].success = Unwrap(tres[i]).ok
                  /\ results[i].response = Unwrap(tres[i]).resp
                  /\ Unwrap(tres[i]).ok => Unwrap(results[i].response).data.src = burls[i]
                  /\ ~Unwrap(tres[i]).ok =>
                        results[i].error = Some(ErrorToString(Unwrap(Unwrap(tres[i]).err)))
             ELSE ~results[i].success

\* C1 witness: a batch of two different URLs has returned, both fetched
\* successfully, and the task of the second URL ended first
BatchOrderWitness ==
    /\ bpc = "returned"
    /\ Len(burls) = 2
    /\ burls[1] # burls[2]
    /\ finishOrder = <<2, 1>>
    /\ results[1].success /\ results[2].success
    /\ Unwrap(results[1].response).data.src = burls[1]
    /\ Unwrap(results[2].response).data.src = burls[2]

\* C2: at every instant the number of the batch's tasks inside
\* fetch_image_internal is at most min(max_concurrent, 32).
BatchConcurrencyBound ==
    Cardinality(InFlight) <= (IF bmc <= 32 THEN bmc ELSE 32)

\* C2 witness: with max_concurrent = 1 one task is fetching from the network
\* while another waits for the permit
BatchConcurrencyWitness ==
    /\ bpc = "running"
    /\ bmc = 1
    /\ permits = 0
    /\ \E t \in Tasks : pc[t] = "send"
    /\ \E t \in Tasks : pc[t] = "spawned"

\* C3: the batch never returns an error: whenever it returns it returns Ok with
\* one entry per URL; a fetch that failed or a task that panicked shows only as
\* its own entry, with success = false, an error message and no response, and
\* the entries of the fetches that succeeded carry their responses.
BatchNeverFails ==
    bpc = "returned" =>
        /\ bret = Some("Ok")
        /\ Len(results) = Len(burls)
        /\ \A i \in 1..Len(burls) :
             IF Panicked(i) \/ ~Unwrap(tres[i]).ok
             THEN ~results[i].success /\ IsSome(results[i].error) /\ IsNone(results[i].response)
             ELSE results[i].success /\ IsNone(results[i].error)
                  /\ results[i].response = Unwrap(tres[i]).resp

\* C3 witness: a batch has returned in which the first task panicked and the
\* second fetch succeeded
BatchNeverFailsWitness ==
    /\ bpc = "returned"
    /\ bret = Some("Ok")
    /\ Len(burls) = 2
    /\ Panicked(1)
    /\ ~results[1].success
    /\ results[2].success

\* C4: in the returned list the url field of the i-th entry is the i-th requested
\* URL, also for a task that panicked.
BatchEntryUrls ==
    bpc = "returned" => \A i \in 1..Len(results) : results[i].url = burls[i]

\* ------------------------------------------------------------------------
\* Properties of the cache (SpecIdem, SpecLru)
\* ------------------------------------------------------------------------

\* two responses equal in everything but from_cache
SameImage(a, b) == a.mime_type = b.mime_type /\ a.data = b.data /\ a.final_url = b.final_url

\* in this step thread t does its cache lookup
LooksUp(t) == pc[t] = "lookup" /\ pc'[t] # "lookup"

\* in this step thread t is answered from the cache with the image of first,
\* without having gone to the network
ServedFromCache(t, first) ==
    /\ pc'[t] = "done"
    /\ ~usedNet'[t]
    /\ Unwrap(tres'[t]).ok
    /\ Unwrap(Unwrap(tres'[t]).resp).from_cache
    /\ SameImage(Unwrap(Unwrap(tres'[t]).resp), first)

\* C5 as claimed: once a fetch of u has succeeded on the initialized proxy, every
\* later fetch of u, with no eviction of u, clear_cache or shutdown since,
\* returns the image of that first fetch with from_cache = true and without a
\* network fetch.
CacheIdempotenceAsClaimed ==
    [][\A t \in Callers :
         (LooksUp(t) /\ IsSome(firstRet[turl[t]]))
             => ServedFromCache(t, Unwrap(firstRet[turl[t]]))]_vars

\* C5 amended: once a fetch of u has succeeded on the initialized proxy, a later
\* fetch of u, with no eviction of u, clear_cache, shutdown or cache insert of u
\* by another fetch since, returns the image of that fetch with from_cache = true
\* and without a network fetch.
CacheIdempotence ==
    [][\A t \in Callers :
         (LooksUp(t) /\ IsSome(lastRet[turl[t]]))
             => ServedFromCache(t, Unwrap(lastRet[turl[t]]))]_vars

\* C5 witness: a fetch has been answered from the cache with the image that an
\* earlier fetch of the same URL got from the network (from_cache = false), while
\* the other caller is fetching the same URL from the network
CacheIdempotenceWitness ==
    \E t \in Callers, t2 \in Callers :
        /\ pc[t] = "done"
        /\ ~usedNet[t]
        /\ Unwrap(tres[t]).ok
        /\ Unwrap(Unwrap(tres[t]).resp).from_cache
        /\ IsSome(firstRet[turl[t]])
        /\ ~Unwrap(firstRet[turl[t]]).from_cache
        /\ SameImage(Unwrap(Unwrap(tres[t]).resp), Unwrap(firstRet[turl[t]]))
        /\ t2 # t /\ turl[t2] = turl[t] /\ pc[t2] = "insert"

\* the position of u in the use log
LogPos(u) == CHOOSE i \in 1..Len(useLog) : useLog[i] = u

\* the least recently used of the cached URLs
LeastRecentlyUsed(cache) ==
    CHOOSE k \in CacheKeys(cache) : \A k2 \in CacheKeys(cache) : LogPos(k) <= LogPos(k2)

\* in this step thread t inserts a new URL into a full cache
InsertsIntoFull(t) ==
    /\ pc[t] = "insert" /\ pc'[t] = "done"
    /\ IsSome(proxy)
    /\ turl[t] \notin CacheKeys(CacheOf(proxy))
    /\ Len(CacheOf(proxy)) = Unwrap(proxy).cap

\* the cache as a set of (key, value) pairs
CacheEntries(cache) == { cache[i] : i \in 1..Len(cache) }

\* C6: when a fetch inserts a URL into a cache that holds capacity-many other
\* URLs, exactly one entry leaves the cache, and it is the one whose last use (its
\* insertion or its last cache hit) is the oldest; all other entries stay.
LruEviction ==
    [][\A t \in Threads :
         InsertsIntoFull(t) =>
             LET old == CacheOf(proxy)
                 new == CacheOf(proxy')
                 lru == LeastRecentlyUsed(old)
             IN /\ CacheKeys(new) = (CacheKeys(old) \ {lru}) \cup {turl[t]}
                /\ Len(new) = Unwrap(proxy).cap
                /\ \A e \in CacheEntries(old) : e.key # lru => e \in CacheEntries(new)]_vars

\* C6 witness: with capacity 2 all three URLs have been used, the two used last
\* are cached, and the evicted one was not the one inserted first: the URL
\* inserted first was used again by a cache hit
LruEvictionWitness ==
    /\ IsSome(proxy)
    /\ Unwrap(proxy).cap = 2
    /\ Len(useLog) = 3
    /\ CacheKeys(CacheOf(proxy)) = {useLog[2], useLog[3]}
    /\ \E t \in Callers :
          /\ pc[t] = "done" /\ turl[t] = useLog[2]
          /\ Unwrap(tres[t]).ok /\ Unwrap(Unwrap(tres[t]).resp).from_cache

\* ------------------------------------------------------------------------
\* Properties of a single fetch (Spec)
\* ------------------------------------------------------------------------

\* thread t holds the successful result of its fetch
DoneOk(t) == pc[t] = "done" /\ IsSome(tres[t]) /\ Unwrap(tres[t]).ok

\* thread t holds the error of its fetch
DoneErr(t) == pc[t] = "done" /\ IsSome(tres[t]) /\ ~Unwrap(tres[t]).ok

\* the response thread t holds
RespOf(t) == Unwrap(Unwrap(tres[t]).resp)

\* the error thread t holds
ErrOf(t) == Unwrap(Unwrap(tres[t]).err)

\* C7: a response returned by a fetch has from_cache = true exactly when the
\* fetch was answered from the cache and never went to the network, and every
\* entry stored in the cache has from_cache = false.
FromCacheFlag ==
    /\ \A t \in Threads : DoneOk(t) => (RespOf(t).from_cache <=> ~usedNet[t])
    /\ \A e \in CacheEntries(CacheOf(proxy)) : ~e.value.from_cache

\* C7 witness: one caller holds a response served from the cache, the other one
\* a response fetched from the network, and the cache is populated
FromCacheFlagWitness ==
    \E t1 \in Callers, t2 \in Callers :
        /\ DoneOk(t1) /\ RespOf(t1).from_cache /\ ~usedNet[t1]
        /\ DoneOk(t2) /\ ~RespOf(t2).from_cache /\ usedNet[t2]
        /\ CacheOf(proxy) # <<>>

\* v is what a fetch of u stores for a response of the origin that passes every
\* check of the policy: 2xx status, allowed content type, size within max_size
PolicyValid(u, v) ==
    \E r \in ServerResponses(u) :
        /\ r.status >= 200 /\ r.status <= 299
        /\ IsSome(r.content_type)
        /\ \E i \in 1..Len(DefaultAllowedContentTypes) :
              DefaultAllowedContentTypes[i] =
                  ToLowercase(Trim(SplitSemiFirst(Unwrap(r.content_type))))
        /\ IsSome(r.content_length) => Unwrap(r.content_length) <= MAX_SIZE
        /\ r.body.len <= MAX_SIZE
        /\ v.data = r.body
        /\ v.final_url = r.final_url
        /\ v.mime_type = Trim(SplitSemiFirst(Unwrap(r.content_type)))

\* the entries that are in the cache after this step and were not before it
NewEntries == CacheEntries(CacheOf(proxy')) \ CacheEntries(CacheOf(proxy))

\* in this step thread t, whose fetch has gone to the network, has read the whole
\* body and holds the successful result v, inserts v for its URL
InsertsRead(t, e) ==
    /\ pc[t] = "insert" /\ pc'[t] = "done"
    /\ usedNet[t] /\ IsNone(pending[t])
    /\ turl[t] = e.key
    /\ tres[t] = Some(OkResult(e.value))

\* in this step the fetch of thread t ends with an error
EndsInError(t) == pc[t] # "done" /\ pc'[t] = "done" /\ ~Unwrap(tres'[t]).ok

\* C8: an entry enters the cache only by the insert of a fetch of its URL that has
\* passed every check and has read the whole body; the step in which a fetch ends
\* with an error leaves the cache as it is, and a fetch that ended with an error
\* never inserts; so every cached entry is a policy-valid successful response.
CacheOnlyValid ==
    /\ [](\A e \in CacheEntries(CacheOf(proxy)) : PolicyValid(e.key, e.value))
    /\ [][/\ \A e \in NewEntries : \E t \in Threads : InsertsRead(t, e)
          /\ \A t \in Threads : EndsInError(t) => UNCHANGED proxy
          /\ \A t \in Threads : DoneErr(t) => pc'[t] \in {"done", "idle"}]_vars

\* C8 witness: the cache holds a body of exactly max_size bytes, while a fetch of
\* another URL, whose body was one byte larger, has ended with ResponseTooLarge
\* and has left no entry
CacheOnlyValidWitness ==
    \E t \in Callers :
        /\ DoneErr(t) /\ usedNet[t]
        /\ ErrOf(t).kind = "ResponseTooLarge"
        /\ turl[t] \notin CacheKeys(CacheOf(proxy))
        /\ \E e \in CacheEntries(CacheOf(proxy)) : e.value.data.len = MAX_SIZE

\* in this step caller t calls proxy_fetch_image with the URL u
Calls(t, u) == pc[t] = "idle" /\ pc'[t] # "idle" /\ turl'[t] = u

\* C9: a fetch of an empty or unparseable URL, or of a URL whose scheme is
\* neither http nor https, returns InvalidUrl in the step of the call itself,
\* which leaves the state cell with the cache as it is; the fetch never gets to
\* the cache lookup, the network or the cache insert.
InvalidUrlRejected ==
    /\ [](\A t \in Threads :
             turl[t] \in InvalidUrls => /\ pc[t] \in {"idle", "done"}
                                        /\ ~usedNet[t])
    /\ [][\A t \in Callers : \A u \in InvalidUrls :
             Calls(t, u) => /\ pc'[t] = "done"
                            /\ ~Unwrap(tres'[t]).ok
                            /\ Unwrap(Unwrap(tres'[t]).err).kind = "InvalidUrl"
                            /\ Unwrap(Unwrap(tres'[t]).err).url = u
                            /\ ~usedNet'[t]
                            /\ UNCHANGED proxy]_vars

\* C9 witness: on a proxy with a populated cache one caller holds InvalidUrl for
\* a URL of scheme ftp and the other one for a URL that does not parse
InvalidUrlRejectedWitness ==
    \E t1 \in Callers, t2 \in Callers :
        /\ DoneErr(t1) /\ turl[t1] = "ftp://host/x" /\ ErrOf(t1).kind = "InvalidUrl"
        /\ DoneErr(t2) /\ turl[t2] = "not-a-url" /\ ErrOf(t2).kind = "InvalidUrl"
        /\ ~usedNet[t1] /\ ~usedNet[t2]
        /\ CacheOf(proxy) # <<>>

\* C10 as claimed: a fetch of a valid http(s) URL that finds the state cell empty
\* (before the first proxy_init, or after proxy_shutdown) returns NotInitialized
\* and does not go to the network.
NotInitializedRejected ==
    [][\A t \in Callers :
         (LooksUp(t) /\ IsNone(proxy))
             => /\ pc'[t] = "done"
                /\ ~Unwrap(tres'[t]).ok
                /\ Unwrap(Unwrap(tres'[t]).err).kind = "NotInitialized"
                /\ ~usedNet'[t]]_vars

\* ------------------------------------------------------------------------
\* The path of the requests (Spec)
\* ------------------------------------------------------------------------

\* in this step thread t sends its request
Sends(t) == pc[t] = "send" /\ ~usedNet[t] /\ usedNet'[t]

\* C11 as claimed: every request a fetch sends goes through the tunnel: the state
\* cell holds a tunnel and the request takes the tunnel path, never the host's
\* own network stack.
AllThroughTunnel ==
    [][\A t \in Threads :
         Sends(t) => /\ FetchRoute(proxy) = "tunnel"
                     /\ IsSome(proxy)
                     /\ IsSome(Unwrap(proxy).tunnel)]_vars

\* ------------------------------------------------------------------------
\* SpecLife: the lifecycle calls beside fetches of two URLs, with the record of
\* the step taken last
\* ------------------------------------------------------------------------

\* lastStep, live and fresh follow the step: op is the API call (or "fetch" for a
\* step of a fetch), arg its capacity argument, headers its headers argument, ret
\* what it returned
HistStep(op, arg, ret, status, headers) ==
    /\ lastStep' = [op |-> op, arg |-> arg, ret |-> ret, status |-> status,
                    headers |-> headers, resp |-> None, pre |-> Len(CacheOf(proxy))]
    /\ live' = IF op = "init" /\ ret = "Ok" THEN TRUE
               ELSE IF op = "shutdown" THEN FALSE
               ELSE live
    /\ fresh' = IF IsNone(proxy) \/ IsNone(proxy')
                THEN {}
                ELSE IF \E t \in Threads : pc[t] = "insert" /\ pc'[t] = "done"
                THEN fresh \cup {turl[CHOOSE t \in Threads : pc[t] = "insert" /\ pc'[t] = "done"]}
                ELSE fresh
    /\ UNCHANGED <<useLog, firstRet, lastRet, finishOrder, cancelled, ctCheck, sideVars>>

HistLife(op, arg, ret, status) == HistStep(op, arg, ret, status, None)

HistFetch == HistLife("fetch", 0, "", None)

LifeUrls == {"https://host/a", "https://host/b"}

LifeCacheSizes == {1, 2}

NextLife ==
    \/ \E path \in StoragePaths, n \in LifeCacheSizes, stored \in StoredConfigs, storage_ok \in BOOLEAN :
          proxy_init(path, n, stored, storage_ok)
              /\ HistLife("init", n, proxy_init_result(proxy, storage_ok), None)
    \/ proxy_shutdown /\ HistLife("shutdown", 0, "Ok", None)
    \/ proxy_clear_cache /\ HistLife("clear", 0, "Ok", None)
    \/ StatusCall /\ HistLife("status", 0, "Ok", Some(proxy_status(proxy)))
    \/ \E t \in Callers, u \in LifeUrls, headers \in HeaderArgs :
          proxy_fetch_image(t, u, headers) /\ HistStep("call", 0, "", None, headers)
    \/ ReturnAny /\ HistFetch
    \/ LookupAny /\ HistFetch
    \/ SendAny({"timeout"}, {1}) /\ HistFetch
    \/ BodyAny /\ HistFetch
    \/ InsertAny /\ HistFetch

SpecLife == Init /\ [][NextLife]_vars

\* ------------------------------------------------------------------------
\* Properties of the lifecycle calls (SpecLife)
\* ------------------------------------------------------------------------

\* this step is the API call op
IsCall(op) == lastStep'.op = op

StatusReport ==
    LET st == proxy_status(proxy)
    IN /\ st.ready <=> IsSome(proxy)
       /\ st.ready <=> live
       /\ ~st.ready => /\ ~st.warp_enabled
                       /\ st.endpoint = None
                       /\ st.cache_size = 0
                       /\ st.last_error = Some("Proxy not initialized")
       /\ st.ready => st.cache_size = Cardinality(CacheKeys(CacheOf(proxy)))
       /\ lastStep.op = "status" => lastStep.status = Some(st)

\* C13 witness: a proxy_status call has returned ready = true with cache_size 1
\* on a state of capacity 2
StatusReportWitness ==
    /\ lastStep.op = "status"
    /\ Unwrap(lastStep.status).ready
    /\ Unwrap(lastStep.status).cache_size = 1
    /\ IsSome(proxy)
    /\ Unwrap(proxy).cap = 2

\* C14: proxy_clear_cache returns Ok; on a populated cell it leaves the cell
\* populated with an empty cache (cache_size 0) and with the configuration,
\* capacity, tunnel slot and last_error it had; on an empty cell it changes
\* nothing.
ClearCacheFrame ==
    [][IsCall("clear") =>
         /\ lastStep'.ret = "Ok"
         /\ IsSome(proxy') <=> IsSome(proxy)
         /\ live' = live
         /\ IsSome(proxy) =>
               /\ Unwrap(proxy').cache = <<>>
               /\ proxy_status(proxy').cache_size = 0
               /\ Unwrap(proxy').config = Unwrap(proxy).config
               /\ Unwrap(proxy').cap = Unwrap(proxy).cap
               /\ Unwrap(proxy').tunnel = Unwrap(proxy).tunnel
               /\ Unwrap(proxy').last_error = Unwrap(proxy).last_error]_vars

\* C14 witness: a proxy_clear_cache has emptied a cache of two entries and the
\* state still has its capacity 2 and its loaded configuration
ClearCacheWitness ==
    /\ lastStep.op = "clear" /\ lastStep.pre = 2
    /\ IsSome(proxy)
    /\ Unwrap(proxy).cache = <<>>
    /\ Unwrap(proxy).cap = 2
    /\ Unwrap(proxy).config.warp_enabled

\* C15: proxy_shutdown returns Ok and leaves the cell empty (status ready =
\* false), also when it was empty before; the state a proxy_init creates has an
\* empty cache; so every cached URL, and every URL served from the cache, was
\* inserted after the state was last created.
ShutdownFresh ==
    /\ [](CacheKeys(CacheOf(proxy)) \subseteq fresh)
    /\ [][/\ IsCall("shutdown") => /\ lastStep'.ret = "Ok"
                                   /\ proxy' = None
                                   /\ ~proxy_status(proxy').ready
          /\ (IsNone(proxy) /\ IsSome(proxy')) => Unwrap(proxy').cache = <<>>
          /\ \A t \in Threads : (LooksUp(t) /\ pc'[t] = "done") => turl[t] \in fresh]_vars

\* C15 witness: one caller still holds a response that was served from the cache
\* before the proxy_shutdown; after a new proxy_init the other caller's fetch of
\* the same URL has missed the cache and is on its way to the network
ShutdownFreshWitness ==
    \E t \in Callers :
        /\ IsSome(proxy)
        /\ Unwrap(proxy).cache = <<>>
        /\ pc[t] = "send"
        /\ turl[t] = "https://host/a"
        /\ \E t2 \in Callers : /\ DoneOk(t2) /\ turl[t2] = "https://host/a"
                               /\ RespOf(t2).from_cache
        /\ fresh = {}
        /\ live

Unfinished == IF bpc = "running" THEN { t \in 1..Len(burls) : pc[t] # "finished" } ELSE {}

\* cancelled follows the step: a shutdown adds the unfinished tasks, the start
\* and the end of a batch reset it
HistCancel(op) ==
    /\ cancelled' = IF bpc = "idle" \/ bpc' = "idle" THEN {}
                    ELSE IF op = "shutdown" THEN cancelled \cup Unfinished
                    ELSE cancelled
    /\ UNCHANGED <<useLog, firstRet, lastRet, finishOrder, lastStep, live, fresh, ctCheck, sideVars>>

CancelUrlLists == UNION { [1..n -> {"https://host/a", "https://host/b"}] : n \in 1..MaxUrls }

CancelMaxConcurrents == {1, 2}

NextCancel ==
    \/ InitAny(BatchCacheSizes) /\ HistCancel("init")
    \/ proxy_shutdown /\ HistCancel("shutdown")
    \/ (\E urls \in CancelUrlLists, mc \in CancelMaxConcurrents :
           proxy_fetch_images_batch(urls, mc)) /\ HistCancel("batch")
    \/ (\E t \in Tasks : TaskAcquire(t)) /\ HistCancel("task")
    \/ (\E t \in Tasks : TaskFinish(t)) /\ HistCancel("task")
    \/ (\E t \in Tasks : TaskPanic(t)) /\ HistCancel("task")
    \/ BatchCollect /\ HistCancel("batch")
    \/ BatchReturn /\ HistCancel("batch")
    \/ BatchEnd /\ HistCancel("batch")
    \/ LookupAny /\ HistCancel("task")
    \/ SendAny({"timeout"}, {1}) /\ HistCancel("task")
    \/ BodyAny /\ HistCancel("task")
    \/ InsertAny /\ HistCancel("task")

SpecCancel == Init /\ [][NextCancel]_vars

\* C16 as claimed: the batch's tasks that had not ended when a proxy_shutdown
\* happened do not complete their fetch: in the list the batch returns, the entry
\* of each such task is an error entry.
ShutdownCancelsBatch ==
    bpc = "returned" =>
        \A t \in cancelled : t <= Len(results) => /\ ~results[t].success
                                                 /\ IsSome(results[t].error)

\* ------------------------------------------------------------------------
\* SpecPolicy: fetches of one URL from an origin that answers with any
\* combination of status, content type, advertised length and body size, with
\* the record of the response received last
\* ------------------------------------------------------------------------
PolicyStatuses == {199, 200, 299, 300, 404}

PolicyContentTypes == {None, Some(CT_PNG_PARAM), Some(CT_HTML)}

PolicyLengths == {None, Some(MAX_SIZE), Some(MAX_SIZE + 1)}

PolicyBodySizes == {MAX_SIZE, MAX_SIZE + 1, 2 * MAX_SIZE}

\* the responses of the origin to a GET of u
PolicyResponses(u) ==
    { HttpResponse(st, ct, cl, u, Body(u, 1, n)) :
        st \in PolicyStatuses, ct \in PolicyContentTypes, cl \in PolicyLengths,
        n \in PolicyBodySizes }

PolicyOutcomes(u) == { [kind |-> "response", resp |-> r] : r \in PolicyResponses(u) }

PolicyUrls == {"https://host/a"}

\* lastStep follows the step: op is "send" with the response received, "body"
\* for a successful read of the body, "fetch" for any other step
HistPolicy(op, resp) ==
    /\ lastStep' = [NoStep EXCEPT !.op = op, !.resp = resp]
    /\ UNCHANGED <<useLog, firstRet, lastRet, finishOrder, live, fresh, cancelled, ctCheck, sideVars>>

NextPolicy ==
    \/ InitAny(BatchCacheSizes) /\ HistPolicy("fetch", None)
    \/ CallAny(PolicyUrls) /\ HistPolicy("fetch", None)
    \/ ReturnAny /\ HistPolicy("fetch", None)
    \/ LookupAny /\ HistPolicy("fetch", None)
    \/ \E t \in Callers : \E o \in PolicyOutcomes(turl[t]) :
          NetSend(t, o) /\ HistPolicy("send", Some(o.resp))
    \/ \E t \in Callers, read_ok \in BOOLEAN :
          NetBody(t, read_ok) /\ HistPolicy(IF read_ok THEN "body" ELSE "fetch", None)
    \/ InsertAny /\ HistPolicy("fetch", None)

SpecPolicy == Init /\ [][NextPolicy]_vars

\* ------------------------------------------------------------------------
\* Properties of the fetcher's checks (SpecPolicy)
\* ------------------------------------------------------------------------

\* the content type of response r is on the default allow-list
TypeAllowed(r) ==
    /\ IsSome(r.content_type)
    /\ \E i \in 1..Len(DefaultAllowedContentTypes) :
          DefaultAllowedContentTypes[i] =
              ToLowercase(Trim(SplitSemiFirst(Unwrap(r.content_type))))

\* the advertised length of response r exceeds max_size
LengthTooLarge(r) == IsSome(r.content_length) /\ Unwrap(r.content_length) > MAX_SIZE

\* after this step thread t holds the error kind with the number code
FailsWith(t, kind, code) ==
    /\ pc'[t] = "done"
    /\ ~Unwrap(tres'[t]).ok
    /\ Unwrap(Unwrap(tres'[t]).err).kind = kind
    /\ Unwrap(Unwrap(tres'[t]).err).code = code

\* C18: the checks are applied in the order status, content type, advertised
\* length, body size, and the first that fails gives the error: a non-2xx
\* response gives HttpError with its status whatever its content type and
\* length; a 2xx response with a disallowed content type gives
\* InvalidContentType whatever its length; a 2xx response of an allowed type
\* with an advertised length over max_size gives ResponseTooLarge with that
\* length; otherwise the body is read, and a body over max_size gives
\* ResponseTooLarge with the size read.
CheckOrder ==
    [][/\ \A t \in Callers :
             (pc[t] = "send" /\ pc'[t] # "send") =>
                 LET r == Unwrap(lastStep'.resp)
                 IN IF r.status < 200 \/ r.status > 299
                    THEN FailsWith(t, "HttpError", r.status)
                    ELSE IF ~TypeAllowed(r)
                    THEN FailsWith(t, "InvalidContentType", 0)
                    ELSE IF LengthTooLarge(r)
                    THEN FailsWith(t, "ResponseTooLarge", Unwrap(r.content_length))
                    ELSE pc'[t] = "body" /\ Unwrap(pending'[t]).body = r.body
       /\ \A t \in Callers :
             (pc[t] = "body" /\ pc'[t] # "body" /\ lastStep'.op = "body") =>
                 IF Unwrap(pending[t]).body.len > MAX_SIZE
                 THEN FailsWith(t, "ResponseTooLarge", Unwrap(pending[t]).body.len)
                 ELSE pc'[t] = "insert" /\ Unwrap(tres'[t]).ok]_vars

\* C18 witness: one caller has received a 404 with content type text/html and an
\* advertised length over max_size and holds HttpError 404, while the other one
\* holds InvalidContentType
CheckOrderWitness ==
    \E t \in Callers, t2 \in Callers :
        /\ lastStep.op = "send"
        /\ Unwrap(lastStep.resp).status = 404
        /\ Unwrap(lastStep.resp).content_type = Some(CT_HTML)
        /\ Unwrap(lastStep.resp).content_length = Some(MAX_SIZE + 1)
        /\ DoneErr(t) /\ ErrOf(t).kind = "HttpError" /\ ErrOf(t).code = 404
        /\ DoneErr(t2) /\ ErrOf(t2).kind = "InvalidContentType"

\* C19 as claimed: the mime_type of every successful response, and of every
\* cached entry, is the Content-Type of the origin's response with the suffix
\* from ';' on removed, trimmed and lowercased.
MimeNormalized ==
    /\ [](/\ \A t \in Threads :
                DoneOk(t) => RespOf(t).mime_type = ToLowercase(RespOf(t).mime_type)
          /\ \A e \in CacheEntries(CacheOf(proxy)) :
                e.value.mime_type = ToLowercase(e.value.mime_type))
    /\ [][\A t \in Callers :
             (pc[t] = "send" /\ pc'[t] = "body") =>
                 Unwrap(pending'[t]).mime_type =
                     ToLowercase(Trim(SplitSemiFirst(
                         Unwrap(Unwrap(lastStep'.resp).content_type))))]_vars

\* C21: a 2xx response of an allowed content type whose advertised
\* Content-Length exceeds max_size ends the fetch at the check of the response
\* head with ResponseTooLarge carrying that length: the fetch never comes to
\* read the body, whatever the size of the body is.
AdvertisedLengthRejected ==
    [][\A t \in Callers :
          (pc[t] = "send" /\ pc'[t] # "send") =>
              LET r == Unwrap(lastStep'.resp)
              IN (is_success(r.status) /\ TypeAllowed(r) /\ LengthTooLarge(r)) =>
                     /\ FailsWith(t, "ResponseTooLarge", Unwrap(r.content_length))
                     /\ pc'[t] # "body"
                     /\ IsNone(pending'[t])]_vars

\* C21 witness: a caller has received a 200 of type image/png that advertises
\* max_size + 1 bytes (with a body within max_size) and holds ResponseTooLarge
\* with max_size + 1, no body waiting to be read
AdvertisedLengthWitness ==
    \E t \in Callers :
        /\ lastStep.op = "send"
        /\ Unwrap(lastStep.resp).status = 200
        /\ Unwrap(lastStep.resp).content_type = Some(CT_PNG_PARAM)
        /\ Unwrap(lastStep.resp).content_length = Some(MAX_SIZE + 1)
        /\ Unwrap(lastStep.resp).body.len = MAX_SIZE
        /\ DoneErr(t) /\ ErrOf(t).kind = "ResponseTooLarge" /\ ErrOf(t).code = MAX_SIZE + 1
        /\ IsNone(pending[t])
        /\ \A t2 \in Callers : pc[t2] # "body"

\* C22 as claimed: the read of a body stops once the bytes read exceed max_size:
\* when the body of a response without an advertised length is at least twice
\* max_size, the fetch ends with ResponseTooLarge having read fewer bytes than
\* the body has.
BodyReadStopsAtLimit ==
    [][\A t \in Callers :
          (/\ pc[t] = "body" /\ pc'[t] # "body" /\ lastStep'.op = "body"
           /\ Unwrap(pending[t]).body.len >= 2 * MAX_SIZE) =>
              /\ FailsWith(t, "ResponseTooLarge", Unwrap(Unwrap(tres'[t]).err).code)
              /\ data_len(Unwrap(pending[t])) < Unwrap(pending[t]).body.len
              /\ Unwrap(Unwrap(tres'[t]).err).code < Unwrap(pending[t]).body.len]_vars

\* ------------------------------------------------------------------------
\* SpecTimeout: fetches in which the client's timeout may expire while the
\* request is sent or while the body is read, with the record of what the client
\* reported in the last step
\* ------------------------------------------------------------------------

\* what response.bytes().await yields: the body, a reqwest error that is a
\* timeout (the client's timeout covers the request until the body has been
\* read), or any other error
ReadOutcomes == {"ok", "timeout", "error"}

\* the errors of send() considered here
TimeoutSendErrors == {"timeout", "other"}

\* lastStep follows the step: op is "send" or "body" with, in ret, what the
\* client reported ("response", "ok", "timeout", ...), "fetch" for other steps
HistTimeout(op, cause) ==
    /\ lastStep' = [NoStep EXCEPT !.op = op, !.ret = cause]
    /\ UNCHANGED <<useLog, firstRet, lastRet, finishOrder, live, fresh, cancelled, ctCheck, sideVars>>

NextTimeout ==
    \/ InitAny(BatchCacheSizes) /\ HistTimeout("fetch", "")
    \/ CallAny(PolicyUrls) /\ HistTimeout("fetch", "")
    \/ ReturnAny /\ HistTimeout("fetch", "")
    \/ LookupAny /\ HistTimeout("fetch", "")
    \/ \E t \in Callers : \E o \in OutcomesOf(turl[t], TimeoutSendErrors, {1, 2}) :
          NetSend(t, o) /\ HistTimeout("send", o.kind)
    \/ \E t \in Callers, ro \in ReadOutcomes :
          NetBody(t, ro = "ok") /\ HistTimeout("body", ro)
    \/ InsertAny /\ HistTimeout("fetch", "")

SpecTimeout == Init /\ [][NextTimeout]_vars

\* C24 as claimed: when the client's timeout expires in a phase of the request,
\* while the request is sent and the response head awaited or while the body is
\* read, the fetch ends with the Timeout error carrying timeout_seconds.
TimeoutReported ==
    [][\A t \in Callers :
          (/\ lastStep'.ret = "timeout"
           /\ pc[t] \in {"send", "body"}
           /\ pc'[t] # pc[t]) =>
              FailsWith(t, "Timeout", DefaultFetchLimits.timeout_seconds)]_vars

\* ------------------------------------------------------------------------
\* SpecAllow: is_content_type_allowed on its own, over allow-lists and
\* content-type strings in several spellings
\* ------------------------------------------------------------------------
UpperChar(c) ==
    IF \E i \in 1..Len(Lower) : Lower[i] = c
    THEN Upper[CHOOSE i \in 1..Len(Lower) : Lower[i] = c]
    ELSE c

ToUppercase(s) == [i \in 1..Len(s) |-> UpperChar(s[i])]

CT_ANY == <<"i","m","a","g","e","/","a","n","y","-","t","y","p","e">>

CT_JSON == <<"a","p","p","l","i","c","a","t","i","o","n","/","j","s","o","n">>

CT_CHARSET == <<";"," ","c","h","a","r","s","e","t","=","u","t","f","-","8">>

\* the allow-lists: empty, the default one, a short one, one spelled in capitals
AllowLists == {<<>>, DefaultAllowedContentTypes, <<CT_PNG>>, <<ToUppercase(CT_PNG), CT_GIF>>}

\* the content-type strings: a type in lower or upper case, with or without
\* surrounding whitespace and a parameter suffix
ContentTypeInputs ==
    { pre \o b \o post \o par :
        b \in {CT_PNG, ToUppercase(CT_PNG), CT_GIF, CT_ANY, ToUppercase(CT_ANY),
               CT_HTML, CT_JSON},
        pre \in {<<>>, <<" ">>}, post \in {<<>>, <<" ">>}, par \in {<<>>, CT_CHARSET} }

InitAllow ==
    /\ InitProgram
    /\ ctCheck \in { [limits |-> [DefaultFetchLimits EXCEPT !.allowed_content_types = L],
                      input |-> x, result |-> None] :
                        L \in AllowLists, x \in ContentTypeInputs }

\* limits.is_content_type_allowed(input) is called
CheckContentType ==
    /\ IsNone(ctCheck.result)
    /\ ctCheck' = [ctCheck EXCEPT
                      !.result = Some(is_content_type_allowed(ctCheck.limits, ctCheck.input))]
    /\ UNCHANGED <<proxy, fetchVars, batchVars, histVars, sideVars>>

NextAllow == CheckContentType

SpecAllow == InitAllow /\ [][NextAllow]_vars

\* C20 as claimed: is_content_type_allowed decides on the normalized string (the
\* suffix from ';' on removed, trimmed, lowercased): with a non-empty allow-list
\* it is true exactly when the normalized string equals a member of the list
\* compared without regard to case, with an empty allow-list exactly when the
\* normalized string starts with "image/".
ContentTypeDecision ==
    IsSome(ctCheck.result) =>
        LET L == ctCheck.limits.allowed_content_types
            normalized == ToLowercase(Trim(SplitSemiFirst(ctCheck.input)))
        IN Unwrap(ctCheck.result) =
              IF L = <<>>
              THEN StartsWith(normalized, CT_IMAGE_PREFIX)
              ELSE \E i \in 1..Len(L) : ToLowercase(L[i]) = normalized

\* ------------------------------------------------------------------------
\* config.rs: WarpConfig and its JSON text.  The text is a sequence of lines,
\* one per brace and per field in the order of the struct declarations; the
\* value of a field is the character sequence serde_json writes for it
\* ------------------------------------------------------------------------
Digits == <<"0","1","2","3","4","5","6","7","8","9">>

QUOTE == "\""

BACKSLASH == "\\"

RECURSIVE FormatNat(_)
\* the decimal digits of a natural number
FormatNat(n) ==
    IF n < 10 THEN <<Digits[n + 1]>> ELSE FormatNat(n \div 10) \o <<Digits[(n % 10) + 1]>>

\* serde_json's text of an integer
FormatInt(n) == IF n < 0 THEN <<"-">> \o FormatNat(0 - n) ELSE FormatNat(n)

IsDigit(c) == \E i \in 1..Len(Digits) : Digits[i] = c

DigitValue(c) == (CHOOSE i \in 1..Len(Digits) : Digits[i] = c) - 1

RECURSIVE ParseNatFrom(_, _)
\* the number read from the digits of s after the value acc; None when s holds
\* a character that is not a digit
ParseNatFrom(s, acc) ==
    IF s = <<>> THEN Some(acc)
    ELSE IF ~IsDigit(Head(s)) THEN None
    ELSE ParseNatFrom(Tail(s), acc * 10 + DigitValue(Head(s)))

\* serde_json's reading of an integer
ParseInt(s) ==
    IF s = <<>> \/ s = <<"-">> THEN None
    ELSE IF Head(s) = "-"
    THEN LET r == ParseNatFrom(Tail(s), 0) IN IF IsSome(r) THEN Some(0 - Unwrap(r)) ELSE None
    ELSE ParseNatFrom(s, 0)

\* a character written without its escape
EscapeCharNone(c) == <<c>>

\* serde_json's escape of a character inside a string
EscapeChar(c) ==
    IF c = QUOTE THEN <<BACKSLASH, QUOTE>>
    ELSE IF c = BACKSLASH THEN <<BACKSLASH, BACKSLASH>>
    ELSE <<c>>

RECURSIVE EscapeString(_)
EscapeString(s) == IF s = <<>> THEN <<>> ELSE EscapeChar(Head(s)) \o EscapeString(Tail(s))

\* serde_json's text of a string
EncodeString(s) == <<QUOTE>> \o EscapeString(s) \o <<QUOTE>>

RECURSIVE Unescape(_)
\* the characters between the quotes with the escapes undone; None for a bare
\* quote or a backslash that escapes nothing
Unescape(s) ==
    IF s = <<>> THEN Some(<<>>)
    ELSE IF Head(s) = BACKSLASH
    THEN IF Len(s) >= 2 /\ s[2] \in {QUOTE, BACKSLASH}
         THEN LET r == Unescape(SubSeq(s, 3, Len(s)))
              IN IF IsSome(r) THEN Some(<<s[2]>> \o Unwrap(r)) ELSE None
         ELSE None
    ELSE IF Head(s) = QUOTE THEN None
    ELSE LET r == Unescape(Tail(s))
         IN IF IsSome(r) THEN Some(<<Head(s)>> \o Unwrap(r)) ELSE None

\* serde_json's reading of a string
DecodeString(v) ==
    IF Len(v) >= 2 /\ v[1] = QUOTE /\ v[Len(v)] = QUOTE
    THEN Unescape(SubSeq(v, 2, Len(v) - 1))
    ELSE None

JSON_TRUE == <<"t","r","u","e">>

JSON_FALSE == <<"f","a","l","s","e">>

EncodeBool(b) == IF b THEN JSON_TRUE ELSE JSON_FALSE

DecodeBool(v) == IF v = JSON_TRUE THEN Some(TRUE) ELSE IF v = JSON_FALSE THEN Some(FALSE) ELSE None

\* u16::MAX
U16_MAX == 65535

DecodeU16(v) ==
    LET r == ParseInt(v)
    IN IF IsSome(r) /\ Unwrap(r) >= 0 /\ Unwrap(r) <= U16_MAX THEN r ELSE None

\* an i64 (the timestamps of the model are far inside its range)
DecodeI64(v) == ParseInt(v)

Line(key, value) == [key |-> key, value |-> value]

\* the keys of the lines of a WarpConfig's text, in the order of the fields of
\* WarpConfig, WarpAccountData, WarpPeerConfig and WarpInterfaceConfig
JsonKeys ==
    <<"{", "account {", "account_id", "access_token", "private_key", "license_key", "}",
      "peer {", "public_key", "endpoint_host", "endpoint_ipv4", "endpoint_ipv6",
      "endpoint_port", "}", "interface {", "address_ipv4", "address_ipv6", "}",
      "warp_enabled", "account_type", "last_updated", "}">>

\* serde_json::to_string_pretty(warp_config)
to_string_pretty(c) ==
    LET values ==
          <<<<>>, <<>>, EncodeString(c.account.account_id),
            EncodeString(c.account.access_token), EncodeString(c.account.private_key),
            EncodeString(c.account.license_key), <<>>,
            <<>>, EncodeString(c.peer.public_key), EncodeString(c.peer.endpoint_host),
            EncodeString(c.peer.endpoint_ipv4), EncodeString(c.peer.endpoint_ipv6),
            FormatInt(c.peer.endpoint_port), <<>>,
            <<>>, EncodeString(c.interface.address_ipv4),
            EncodeString(c.interface.address_ipv6), <<>>,
            EncodeBool(c.warp_enabled), EncodeString(c.account_type),
            FormatInt(c.last_updated), <<>> >>
    IN [i \in 1..Len(JsonKeys) |-> Line(JsonKeys[i], values[i])]

\* serde_json::from_str::<WarpConfig>(contents): Some(config), or None for a
\* text that is not a complete record with every field readable
from_str(text) ==
    IF Len(text) # Len(JsonKeys) \/ \E i \in 1..Len(JsonKeys) : text[i].key # JsonKeys[i]
    THEN None
    ELSE LET str(i) == DecodeString(text[i].value)
             port == DecodeU16(text[13].value)
             enabled == DecodeBool(text[19].value)
             updated == DecodeI64(text[21].value)
         IN IF \/ \E i \in {3, 4, 5, 6, 9, 10, 11, 12, 16, 17, 20} : IsNone(str(i))
               \/ IsNone(port) \/ IsNone(enabled) \/ IsNone(updated)
            THEN None
            ELSE Some([account |-> [account_id |-> Unwrap(str(3)),
                                    access_token |-> Unwrap(str(4)),
                                    private_key |-> Unwrap(str(5)),
                                    license_key |-> Unwrap(str(6))],
                       peer |-> [public_key |-> Unwrap(str(9)),
                                 endpoint_host |-> Unwrap(str(10)),
                                 endpoint_ipv4 |-> Unwrap(str(11)),
                                 endpoint_ipv6 |-> Unwrap(str(12)),
                                 endpoint_port |-> Unwrap(port)],
                       interface |-> [address_ipv4 |-> Unwrap(str(16)),
                                      address_ipv6 |-> Unwrap(str(17))],
                       warp_enabled |-> Unwrap(enabled),
                       account_type |-> Unwrap(str(20)),
                       last_updated |-> Unwrap(updated)])

S_ID == <<"t","e","s","t","-","i","d">>

S_TOKEN == <<"t","e","s","t","-","t","o","k","e","n">>

\* a base64 key (with the characters '+', '/' and '=')
S_KEY == <<"a","B","+","/","9","w","=","=">>

S_PEER_KEY == <<"p","e","e","r","-","k","e","y">>

S_HOST == <<"e","n","g","a","g","e",".","c","l","o","u","d","f","l","a","r","e","c","l","i","e","n","t",".","c","o","m">>

\* a host string with a quote and backslashes in it
S_HOST_ODD == <<"a","\"","b","\\","c","\\">>

S_IPV4 == <<"1","6","2",".","1","5","9",".","1","9","2",".","1">>

S_IPV6 == <<"2","6","0","6",":","4","7","0","0",":","d","0",":",":","a","2","9","f",":","c","0","0","1">>

S_ADDR4 == <<"1","7","2",".","1","6",".","0",".","2">>

S_ADDR6 == <<"f","d","0","1",":","d","b","8",":","1","1","1","1",":","2","2","2","2",":",":","2">>

S_FREE == <<"f","r","e","e">>

\* the WARP configurations the host persists
WarpConfigs ==
    { [account |-> [account_id |-> S_ID, access_token |-> S_TOKEN, private_key |-> S_KEY,
                    license_key |-> <<>>],
       peer |-> [public_key |-> S_PEER_KEY, endpoint_host |-> host, endpoint_ipv4 |-> S_IPV4,
                 endpoint_ipv6 |-> S_IPV6, endpoint_port |-> port],
       interface |-> [address_ipv4 |-> S_ADDR4, address_ipv6 |-> S_ADDR6],
       warp_enabled |-> enabled, account_type |-> S_FREE, last_updated |-> updated] :
         host \in {S_HOST, S_HOST_ODD}, port \in {2408, U16_MAX},
         enabled \in BOOLEAN, updated \in {0 - 1, 1704326400} }

\* ------------------------------------------------------------------------
\* config.rs: load_or_create, save, update_warp_config
\* ------------------------------------------------------------------------

\* the runtime config load_or_create builds from what from_str gives
ConfigFrom(parsed) ==
    IF IsSome(parsed)
    THEN [warp_config |-> parsed, warp_enabled |-> Unwrap(parsed).warp_enabled,
          endpoint_host |-> Some(Unwrap(parsed).peer.endpoint_host)]
    ELSE EmptyConfig

\* ProxyConfig::has_credentials
has_credentials(config) == IsSome(config.warp_config)

\* ProxyConfig::load_or_create(path), by this or another task or process while
\* a save may be in progress: the directory is there; the file, if it exists, is
\* read (read_ok: whether read_to_string succeeds) and parsed; contents that do
\* not parse, and a failed read, leave the credentials empty
load_or_create(read_ok) ==
    /\ store.dir
    /\ store' = [store EXCEPT !.loaded =
                    Some(IF IsSome(store.file) /\ read_ok
                         THEN ConfigFrom(from_str(Unwrap(store.file)))
                         ELSE EmptyConfig)]

\* tokio::fs::write, first part: the file is created or truncated (create_ok:
\* whether that succeeds); the contents are still to be written
WriteBegin(st, contents, create_ok) ==
    IF create_ok
    THEN [st EXCEPT !.file = Some(<<>>), !.buf = contents, !.spc = "writing", !.ret = ""]
    ELSE [st EXCEPT !.spc = "idle", !.ret = "StorageError"]

\* ProxyConfig::save up to the creation of the file; nothing is written and Ok
\* returned when there are no credentials
SaveBegin(st, create_ok) ==
    IF IsSome(st.config.warp_config)
    THEN WriteBegin(st, to_string_pretty(Unwrap(st.config.warp_config)), create_ok)
    ELSE [st EXCEPT !.ret = "Ok"]

\* config.save()
save(create_ok) ==
    /\ store.spc = "idle"
    /\ store' = SaveBegin(store, create_ok)

\* config.update_warp_config(c): the fields in memory are set, then save()
update_warp_config(c, create_ok) ==
    /\ store.spc = "idle"
    /\ store' = SaveBegin([store EXCEPT !.config =
                              [warp_config |-> Some(c), warp_enabled |-> c.warp_enabled,
                               endpoint_host |-> Some(c.peer.endpoint_host)]],
                          create_ok)

\* tokio::fs::write, write_all: one write call appends the next lines of the
\* contents to the file, up to line k
SaveWrite(k) ==
    /\ store.spc = "writing"
    /\ k > Len(Unwrap(store.file))
    /\ k <= Len(store.buf)
    /\ store' = [store EXCEPT !.file = Some(SubSeq(store.buf, 1, k))]

\* tokio::fs::write has written everything: save returns Ok(())
SaveDone ==
    /\ store.spc = "writing"
    /\ Unwrap(store.file) = store.buf
    /\ store' = [store EXCEPT !.spc = "idle", !.ret = "Ok", !.buf = <<>>]

\* a write call fails (the device is full, an I/O error): save returns the
\* error through From<std::io::Error>, the file is left as far as it was written
SaveFail ==
    /\ store.spc = "writing"
    /\ Unwrap(store.file) # store.buf
    /\ store' = [store EXCEPT !.spc = "idle", !.ret = "StorageError", !.buf = <<>>]

\* ------------------------------------------------------------------------
\* SpecConfig: one ProxyConfig object that is updated and saved, and reloads of
\* the same storage path at any time
\* ------------------------------------------------------------------------

\* lastStep follows the step: op is "load" with ret "read" or "unread" for a
\* load_or_create that could or could not read the file, "save" otherwise
HistConfig(op, ret) ==
    /\ lastStep' = [NoStep EXCEPT !.op = op, !.ret = ret]
    /\ UNCHANGED <<useLog, firstRet, lastRet, finishOrder, live, fresh, cancelled, ctCheck>>

\* where a write call of the model may end: in the middle of the contents or at
\* their end
WriteEnds == {Len(JsonKeys) \div 2, Len(JsonKeys)}

ConfigFrame == UNCHANGED <<proxy, fetchVars, batchVars, prov, wt, lock>>

NextConfig ==
    \/ \E read_ok \in BOOLEAN :
          load_or_create(read_ok) /\ HistConfig("load", IF read_ok THEN "read" ELSE "unread")
          /\ ConfigFrame
    \/ \E create_ok \in BOOLEAN : save(create_ok) /\ HistConfig("save", "") /\ ConfigFrame
    \/ \E c \in WarpConfigs, create_ok \in BOOLEAN :
          update_warp_config(c, create_ok) /\ HistConfig("save", "") /\ ConfigFrame
    \/ \E k \in WriteEnds : SaveWrite(k) /\ HistConfig("save", "") /\ ConfigFrame
    \/ SaveDone /\ HistConfig("save", "") /\ ConfigFrame
    \/ SaveFail /\ HistConfig("save", "") /\ ConfigFrame

SpecConfig == Init /\ [][NextConfig]_vars

\* ------------------------------------------------------------------------
\* Properties of the configuration store (SpecConfig)
\* ------------------------------------------------------------------------

\* the last update_warp_config or save of credentials has returned Ok and no
\* other has begun since
Persisted == store.spc = "idle" /\ store.ret = "Ok" /\ has_credentials(store.config)

SaveAtomic ==
    /\ [](IsSome(store.file) => IsSome(from_str(Unwrap(store.file))))
    /\ [][(lastStep'.op = "load" /\ lastStep'.ret = "read" /\ IsSome(store.file)) =>
              has_credentials(Unwrap(store'.loaded))]_vars

\* ------------------------------------------------------------------------
\* provisioning.rs: the WARP API as the provisioner sees it
\* ------------------------------------------------------------------------

\* what a request to the API yields: a reqwest error, or a response with a
\* status and a body (None when the body does not parse as the expected JSON)
ApiError == [kind |-> "error", status |-> 0, body |-> None]

ApiResponse(status, body) == [kind |-> "response", status |-> status, body |-> body]

\* "engage.cloudflareclient.com:2408", and hosts without a port and with a port
\* that is not a number
S_ENDPOINT == <<"e","n","g","a","g","e",".","c","l","o","u","d","f","l","a","r","e","c","l","i","e","n","t",".","c","o","m",":","2","4","0","8">>

S_ENDPOINT_NOPORT == S_HOST

S_ENDPOINT_BADPORT == <<"e","n","g","a","g","e",".","c","l","o","u","d","f","l","a","r","e","c","l","i","e","n","t",".","c","o","m",":","x">>

S_UNLIMITED == <<"u","n","l","i","m","i","t","e","d">>

\* the private keys generate_keypair may produce
PrivateKeys == {S_KEY, <<"Z","m","9","v","/","+","8","=">>}

PeerData(key, host) ==
    [public_key |-> key, endpoint |-> [host |-> host, v4 |-> S_IPV4, v6 |-> S_IPV6]]

ConfigBody(peers, enabled, account) ==
    [config |-> [interface |-> [addresses |-> [v4 |-> S_ADDR4, v6 |-> S_ADDR6]],
                 peers |-> peers],
     warp_enabled |-> enabled, account |-> account]

\* the replies to POST /reg
RegisterOutcomes ==
    { ApiError,
      ApiResponse(500, None),
      ApiResponse(200, None),
      ApiResponse(200, Some([id |-> S_ID, token |-> S_TOKEN, account |-> [license |-> S_FREE]])),
      ApiResponse(201, Some([id |-> S_TOKEN, token |-> S_ID, account |-> [license |-> <<>>]])) }

\* the replies to GET /reg/{id}
ConfigOutcomes ==
    { ApiError, ApiResponse(403, None), ApiResponse(200, None) }
    \cup { ApiResponse(200, Some(ConfigBody(peers, enabled, account))) :
             peers \in { <<>>,
                         <<PeerData(S_PEER_KEY, S_ENDPOINT)>>,
                         <<PeerData(S_PEER_KEY, S_ENDPOINT_NOPORT)>>,
                         <<PeerData(S_PEER_KEY, S_ENDPOINT_BADPORT),
                           PeerData(S_KEY, S_ENDPOINT)>> },
             enabled \in BOOLEAN,
             account \in { None, Some([account_type |-> S_UNLIMITED]) } }

\* the replies to PATCH /reg/{id}
EnableOutcomes == { ApiError, ApiResponse(500, None), ApiResponse(200, None) }

\* Utc::now().timestamp()
Timestamps == {0, 1704326400}

\* ------------------------------------------------------------------------
\* provisioning.rs: register, fetch_config, enable_warp, provision_new_account
\* ------------------------------------------------------------------------

\* register, from the reply on: Ok(WarpAccountData) with an empty private key,
\* or ProvisioningFailed for a request error, a non-2xx status or a body that
\* does not parse
register(o) ==
    IF o.kind = "error" \/ ~is_success(o.status) \/ IsNone(o.body)
    THEN [ok |-> FALSE, account |-> None]
    ELSE [ok |-> TRUE,
          account |-> Some([account_id |-> Unwrap(o.body).id,
                            access_token |-> Unwrap(o.body).token,
                            private_key |-> <<>>,
                            license_key |-> Unwrap(o.body).account.license])]

\* host.rsplit_once(':') with the port parsed, 2408 when there is no ':' or the
\* port does not parse
SplitEndpoint(host) ==
    IF \E i \in 1..Len(host) : host[i] = ":"
    THEN LET k == CHOOSE i \in 1..Len(host) :
                     host[i] = ":" /\ \A j \in (i + 1)..Len(host) : host[j] # ":"
             port == DecodeU16(SubSeq(host, k + 1, Len(host)))
         IN [host |-> SubSeq(host, 1, k - 1),
             port |-> IF IsSome(port) THEN Unwrap(port) ELSE 2408]
    ELSE [host |-> host, port |-> 2408]

\* fetch_config, from the reply on: Ok(WarpConfig) built from the first peer,
\* or ProvisioningFailed for a request error, a non-2xx status, a body that does
\* not parse or an empty peer list
fetch_config(account, o, now) ==
    IF o.kind = "error" \/ ~is_success(o.status) \/ IsNone(o.body)
    THEN [ok |-> FALSE, config |-> None]
    ELSE IF Unwrap(o.body).config.peers = <<>>
    THEN [ok |-> FALSE, config |-> None]
    ELSE LET r == Unwrap(o.body)
             peer == Head(r.config.peers)
             ep == SplitEndpoint(peer.endpoint.host)
         IN [ok |-> TRUE,
             config |->
               Some([account |-> account,
                     peer |-> [public_key |-> peer.public_key, endpoint_host |-> ep.host,
                               endpoint_ipv4 |-> peer.endpoint.v4,
                               endpoint_ipv6 |-> peer.endpoint.v6,
                               endpoint_port |-> ep.port],
                     interface |-> [address_ipv4 |-> r.config.interface.addresses.v4,
                                    address_ipv6 |-> r.config.interface.addresses.v6],
                     warp_enabled |-> r.warp_enabled,
                     account_type |-> IF IsSome(r.account)
                                      THEN Unwrap(r.account).account_type ELSE S_FREE,
                     last_updated |-> now])]

\* enable_warp, from the reply on
enable_warp(o) == o.kind = "response" /\ is_success(o.status)

\* step 4 whatever the fetched configuration says
NeedsEnableAlways(config) == TRUE

\* step 4 is taken if the fetched configuration has warp_enabled false
NeedsEnable(config) == ~config.warp_enabled

\* provision_new_account fails with ProvisioningFailed
ProvisionFailed(pv) == [pv EXCEPT !.pc = "done", !.result = "ProvisioningFailed", !.out = None]

\* provision_new_account is called: the keypair is generated and the
\* registration request sent
provision_new_account(key) ==
    /\ prov.pc = "idle"
    /\ prov' = [NoProv EXCEPT !.pc = "register", !.private_key = key,
                              !.requests = <<"register">>]

\* the registration is answered: on success the private key is put into the
\* account and the configuration request sent
RegisterReply(o) ==
    /\ prov.pc = "register"
    /\ LET r == register(o)
       IN prov' = IF ~r.ok THEN ProvisionFailed(prov)
                  ELSE [prov EXCEPT
                          !.pc = "fetch_config",
                          !.account = Some([Unwrap(r.account) EXCEPT
                                              !.private_key = prov.private_key]),
                          !.requests = Append(@, "fetch_config")]

\* the configuration request is answered: on success the private key is put
\* into the configuration; then either the enable request is sent or the
\* configuration returned
FetchReply(o, now) ==
    /\ prov.pc = "fetch_config"
    /\ LET r == fetch_config(Unwrap(prov.account), o, now)
           config == [Unwrap(r.config) EXCEPT
                         !.account.private_key = Unwrap(prov.account).private_key]
       IN prov' = IF ~r.ok THEN ProvisionFailed(prov)
                  ELSE IF NeedsEnable(config)
                  THEN [prov EXCEPT !.pc = "enable_warp", !.config = Some(config),
                                    !.requests = Append(@, "enable_warp")]
                  ELSE [prov EXCEPT !.pc = "done", !.config = Some(config),
                                    !.result = "Ok", !.out = Some(config)]

\* the enable request is answered: on success the configuration is returned
\* with warp_enabled set
EnableReply(o) ==
    /\ prov.pc = "enable_warp"
    /\ prov' = IF ~enable_warp(o) THEN ProvisionFailed(prov)
               ELSE LET config == [Unwrap(prov.config) EXCEPT !.warp_enabled = TRUE]
                    IN [prov EXCEPT !.pc = "done", !.config = Some(config),
                                    !.result = "Ok", !.out = Some(config)]

\* the caller has taken the result
ProvisionReturn ==
    /\ prov.pc = "done"
    /\ prov' = NoProv

\* ------------------------------------------------------------------------
\* SpecProv: calls of provision_new_account against an API that answers each
\* request in any way
\* ------------------------------------------------------------------------

\* lastStep follows the step: op is the request that was answered ("call" and
\* "return" for the other steps), resp the reply
HistProv(op, o) ==
    /\ lastStep' = [NoStep EXCEPT !.op = op, !.resp = o]
    /\ UNCHANGED <<useLog, firstRet, lastRet, finishOrder, live, fresh, cancelled, ctCheck>>

ProvFrame == UNCHANGED <<proxy, fetchVars, batchVars, store, wt, lock>>

NextProv ==
    \/ \E key \in PrivateKeys :
          provision_new_account(key) /\ HistProv("call", None) /\ ProvFrame
    \/ \E o \in RegisterOutcomes : RegisterReply(o) /\ HistProv("register", Some(o)) /\ ProvFrame
    \/ \E o \in ConfigOutcomes, now \in Timestamps :
          FetchReply(o, now) /\ HistProv("fetch_config", Some(o)) /\ ProvFrame
    \/ \E o \in EnableOutcomes : EnableReply(o) /\ HistProv("enable_warp", Some(o)) /\ ProvFrame
    \/ ProvisionReturn /\ HistProv("return", None) /\ ProvFrame

SpecProv == Init /\ [][NextProv]_vars

\* ------------------------------------------------------------------------
\* Properties of the provisioner (SpecProv)
\* ------------------------------------------------------------------------

\* reply o to the request op is a failure: a request error, a non-2xx status, a
\* body that does not parse, or (for the configuration) an empty peer list
ReplyFails(op, o) ==
    \/ o.kind = "error"
    \/ o.status < 200 \/ o.status > 299
    \/ op # "enable_warp" /\ IsNone(o.body)
    \/ op = "fetch_config" /\ IsSome(o.body) /\ Len(Unwrap(o.body).config.peers) = 0

\* C27: provision_new_account sends its requests in the order register, fetch
\* configuration, enable WARP, the last one only if the fetched warp_enabled is
\* false; a failed step (request error, non-2xx, parse failure, empty peer list)
\* ends the call with ProvisioningFailed, no configuration and no further
\* request; a configuration is returned only when every request sent has
\* succeeded, and it carries the generated private key and warp_enabled true.
ProvisionOrder ==
    /\ [](prov.requests \in { <<>>, <<"register">>, <<"register", "fetch_config">>,
                              <<"register", "fetch_config", "enable_warp">> })
    /\ [](IsSome(prov.out) =>
              /\ prov.result = "Ok" /\ prov.pc = "done"
              /\ Len(prov.requests) >= 2
              /\ Unwrap(prov.out).account.private_key = prov.private_key
              /\ Unwrap(prov.out).warp_enabled)
    /\ [][lastStep'.op \in {"register", "fetch_config", "enable_warp"} =>
            LET op == lastStep'.op
                o == Unwrap(lastStep'.resp)
            IN IF ReplyFails(op, o)
               THEN /\ prov'.pc = "done" /\ prov'.result = "ProvisioningFailed"
                    /\ IsNone(prov'.out)
                    /\ prov'.requests = prov.requests
               ELSE CASE op = "register" ->
                           /\ prov'.requests = <<"register", "fetch_config">>
                           /\ IsNone(prov'.out) /\ prov'.result = ""
                      [] op = "fetch_config" ->
                           IF Unwrap(o.body).warp_enabled
                           THEN /\ prov'.requests = prov.requests
                                /\ prov'.result = "Ok" /\ IsSome(prov'.out)
                           ELSE /\ prov'.requests = Append(prov.requests, "enable_warp")
                                /\ IsNone(prov'.out) /\ prov'.result = ""
                      [] OTHER ->
                           /\ prov'.requests = prov.requests
                           /\ prov'.result = "Ok" /\ IsSome(prov'.out)]_vars

\* C27 witness: a call has failed at the enable step, after the registration
\* and a configuration with warp_enabled false, and returns no configuration
ProvisionOrderWitness ==
    /\ lastStep.op = "enable_warp"
    /\ Unwrap(lastStep.resp).status = 500
    /\ prov.requests = <<"register", "fetch_config", "enable_warp">>
    /\ prov.pc = "done" /\ prov.result = "ProvisioningFailed"
    /\ IsNone(prov.out)
    /\ IsSome(prov.config) /\ ~Unwrap(prov.config).warp_enabled

\* ------------------------------------------------------------------------
\* transport.rs: WireGuardTransport.  initiated: a handshake initiation has
\* gone out to the endpoint; session: the Tunn has completed a handshake
\* (time_since_last_handshake() is Some)
\* ------------------------------------------------------------------------

\* IP packets
Packets == {"p1", "p2"}

\* a UDP datagram from the endpoint: a handshake response (when an initiation
\* has gone out, decapsulate establishes the session and has a reply written to
\* the network; otherwise it yields an error), a data
\* packet (decapsulate yields its IP packet when there is a session), or
\* anything else (decapsulate yields an error)
Datagram(kind, packet) == [kind |-> kind, packet |-> packet]

Datagrams ==
    { Datagram("handshake", ""), Datagram("junk", "") }
    \cup { Datagram("data", q) : q \in Packets }

\* the sequences of at most n elements of S
SeqsUpTo(S, n) == UNION { [1..k -> S] : k \in 0..n }

RECURSIVE ReceiveAll(_, _, _)
\* the loop of poll over the datagrams that recv_from delivers: the session
\* afterwards, the decrypted IP packets in order, and the number of replies
\* handed to send_to
ReceiveAll(session, initiated, ds) ==
    IF ds = <<>>
    THEN [session |-> session, packets |-> <<>>, writes |-> 0]
    ELSE LET dg == Head(ds)
             answered == dg.kind = "handshake" /\ initiated
             rest == ReceiveAll(session \/ answered, initiated, Tail(ds))
         IN [session |-> rest.session,
             packets |-> (IF dg.kind = "data" /\ session THEN <<dg.packet>> ELSE <<>>)
                         \o rest.packets,
             writes |-> (IF answered THEN 1 ELSE 0) + rest.writes]

\* WireGuardTransport::poll: the datagrams ds are received, then recv_from
\* gives WouldBlock (ending "would_block") or another error; reply_ok: whether
\* the send_to calls for the replies succeed (their result is dropped).
\* udp_errors counts the send and receive errors other than WouldBlock
transport_poll(session, initiated, ds, ending, reply_ok) ==
    LET r == ReceiveAll(session, initiated, ds)
    IN [ok |-> ending = "would_block",
        session |-> r.session,
        packets |-> IF ending = "would_block" THEN r.packets ELSE <<>>,
        udp_errors |-> (IF reply_ok THEN 0 ELSE r.writes)
                       + (IF ending = "would_block" THEN 0 ELSE 1)]

\* what encapsulate, format_handshake_initiation and update_timers yield:
\* WriteToNetwork, an error, or Done
TunnResults == {"write", "err", "done"}

\* WireGuardTransport::send_ip: the packet is encapsulated and, for
\* WriteToNetwork, sent; a send error and an encapsulation error are returned
send_ip(tr, send_ok) ==
    [ok |-> ~(tr = "err" \/ (tr = "write" /\ ~send_ok)),
     udp_errors |-> IF tr = "write" /\ ~send_ok THEN 1 ELSE 0]

\* WireGuardTransport::initiate_handshake: as send_ip, for the initiation;
\* sent: whether the initiation has gone out
initiate_handshake(tr, send_ok) ==
    [ok |-> ~(tr = "err" \/ (tr = "write" /\ ~send_ok)),
     udp_errors |-> IF tr = "write" /\ ~send_ok THEN 1 ELSE 0,
     sent |-> tr = "write" /\ send_ok]

\* WireGuardTransport::tick: nothing within 100 ms of the last tick (due
\* false); otherwise update_timers, whose packet is sent with the result of
\* send_to dropped; always Ok
tick(due, tr, send_ok) ==
    [ok |-> TRUE,
     udp_errors |-> IF due /\ tr = "write" /\ ~send_ok THEN 1 ELSE 0]

\* WireGuardTransport::is_connected
transport_is_connected(w) == w.session

\* ------------------------------------------------------------------------
\* tunnel.rs: WarpTunnel
\* ------------------------------------------------------------------------

\* WarpTunnel::is_connected
is_connected(w) == w.connected

\* the packet at the back of the queue taken in place of the one at the front
PopBack(q) == [packet |-> q[Len(q)], rest |-> SubSeq(q, 1, Len(q) - 1)]

\* VecDeque::pop_front on a queue that is not empty
PopFront(q) == [packet |-> Head(q), rest |-> Tail(q)]

\* WarpTunnel::connect
connect(tr, send_ok) ==
    /\ wt.pc = "idle"
    /\ wt' = [wt EXCEPT !.initiated = @ \/ initiate_handshake(tr, send_ok).sent]

\* WarpTunnel::poll, first part: transport.poll(); on Ok its packets are
\* appended to the RX queue, on Err poll returns the error
PollTransport(ds, ending, reply_ok) ==
    /\ wt.pc = "idle"
    /\ LET r == transport_poll(wt.session, wt.initiated, ds, ending, reply_ok)
       IN /\ Len(wt.rx_queue) + Len(r.packets) <= MaxQueue
          /\ wt' = IF r.ok
                   THEN [wt EXCEPT !.pc = "stack", !.session = r.session,
                                   !.rx_queue = @ \o r.packets, !.sent = <<>>]
                   ELSE [wt EXCEPT !.session = r.session, !.sent = <<>>]

\* WarpTunnel::poll, second part: interface.poll takes n packets off the RX
\* queue and puts the packets out on the TX queue
PollStack(n, out) ==
    /\ wt.pc = "stack"
    /\ n <= Len(wt.rx_queue)
    /\ Len(wt.tx_queue) + Len(out) <= MaxQueue
    /\ wt' = [wt EXCEPT !.pc = "drain",
                        !.rx_queue = SubSeq(@, n + 1, Len(@)),
                        !.tx_queue = @ \o out]

\* WarpTunnel::poll, third part, one turn of the loop: the packet at the front
\* of the TX queue is taken off and handed to send_ip; on Err poll returns
PollDrain(tr, send_ok) ==
    /\ wt.pc = "drain"
    /\ wt.tx_queue # <<>>
    /\ LET f == PopFront(wt.tx_queue)
           r == send_ip(tr, send_ok)
       IN wt' = [wt EXCEPT !.tx_queue = f.rest, !.sent = Append(@, f.packet),
                           !.pc = IF r.ok THEN "drain" ELSE "idle"]

\* WarpTunnel::poll, last part, with the TX queue empty: transport.tick()
\* (expired: update_timers finds the session expired and drops it), then
\* connected is set from the transport and Ok returned
PollTick(due, tr, send_ok, expired) ==
    /\ wt.pc = "drain"
    /\ wt.tx_queue = <<>>
    /\ expired => due /\ wt.session
    /\ LET session == wt.session /\ ~expired
       IN wt' = [wt EXCEPT !.pc = "idle", !.session = session, !.connected = session]

\* tcp_connect: two buffers are allocated with Box::leak, the socket is made
\* and connected, which may fail with TunnelError, and on success the socket is
\* added to the socket set, whose storage has room for MAX_TCP_CONNECTIONS
tcp_connect(connect_ok) ==
    /\ wt.pc = "idle"
    /\ wt.sockets < MAX_TCP_CONNECTIONS
    /\ wt' = IF connect_ok
             THEN [wt EXCEPT !.buffers = @ + 2, !.sockets = @ + 1]
             ELSE [wt EXCEPT !.buffers = @ + 2]

\* what tcp_connect returns
tcp_connect_result(connect_ok) == [ok |-> connect_ok, udp_errors |-> 0]

\* tcp_close: close() on a socket of the set
tcp_close ==
    /\ wt.pc = "idle"
    /\ wt.closed < wt.sockets
    /\ wt' = [wt EXCEPT !.closed = @ + 1]

\* tcp_remove: a socket, closed or not, is removed from the socket set and
\* dropped; its buffers were leaked and stay allocated
tcp_remove ==
    /\ wt.pc = "idle"
    /\ wt.sockets > 0
    /\ \E was_closed \in BOOLEAN :
          /\ IF was_closed THEN wt.closed > 0 ELSE wt.closed < wt.sockets
          /\ wt' = [wt EXCEPT !.sockets = @ - 1,
                              !.closed = IF was_closed THEN @ - 1 ELSE @]

\* ------------------------------------------------------------------------
\* SpecTunnel: one WarpTunnel driven by connect, poll and the tcp calls, over a
\* socket that delivers any datagrams and fails at any call
\* ------------------------------------------------------------------------

\* lastStep follows the step: op is the transport operation that ran
\* ("initiate_handshake", "poll", "send_ip", "tick"; "stack" and "tcp" for the
\* other steps), ret what it returned, arg the number of UDP errors other than
\* WouldBlock that occurred in it, resp the packets a transport poll returned
HistTunnel(op, r, packets) ==
    /\ lastStep' = [NoStep EXCEPT !.op = op,
                                  !.ret = IF r.ok THEN "Ok" ELSE "TunnelError",
                                  !.arg = r.udp_errors,
                                  !.resp = packets]
    /\ UNCHANGED <<useLog, firstRet, lastRet, finishOrder, live, fresh, cancelled, ctCheck>>

TunnelFrame == UNCHANGED <<proxy, fetchVars, batchVars, store, prov, lock>>

NoErrors == [ok |-> TRUE, udp_errors |-> 0]

NextTunnel ==
    \/ \E tr \in TunnResults, send_ok \in BOOLEAN :
          /\ connect(tr, send_ok)
          /\ HistTunnel("initiate_handshake", initiate_handshake(tr, send_ok), None)
          /\ TunnelFrame
    \/ \E ds \in SeqsUpTo(Datagrams, MaxQueue), ending \in {"would_block", "error"},
          reply_ok \in BOOLEAN :
          /\ PollTransport(ds, ending, reply_ok)
          /\ LET r == transport_poll(wt.session, wt.initiated, ds, ending, reply_ok)
             IN HistTunnel("poll", r, Some(r.packets))
          /\ TunnelFrame
    \/ \E n \in 0..MaxQueue, out \in SeqsUpTo(Packets, MaxQueue) :
          PollStack(n, out) /\ HistTunnel("stack", NoErrors, None) /\ TunnelFrame
    \/ \E tr \in TunnResults, send_ok \in BOOLEAN :
          PollDrain(tr, send_ok) /\ HistTunnel("send_ip", send_ip(tr, send_ok), None)
          /\ TunnelFrame
    \/ \E due \in BOOLEAN, tr \in TunnResults, send_ok \in BOOLEAN, expired \in BOOLEAN :
          /\ PollTick(due, tr, send_ok, expired)
          /\ HistTunnel("tick", tick(due, tr, send_ok), None)
          /\ TunnelFrame
    \/ \E connect_ok \in BOOLEAN :
          /\ wt.buffers < 2 * MaxQueue
          /\ tcp_connect(connect_ok)
          /\ HistTunnel("tcp", tcp_connect_result(connect_ok), None)
          /\ TunnelFrame
    \/ tcp_remove /\ HistTunnel("tcp", NoErrors, None) /\ TunnelFrame

SpecTunnel == Init /\ [][NextTunnel]_vars

\* ------------------------------------------------------------------------
\* Properties of the tunnel (SpecTunnel)
\* ------------------------------------------------------------------------

TransportOps == {"initiate_handshake", "poll", "send_ip", "tick"}

\* C28 as claimed: a transport operation in which a UDP send or receive error
\* other than WouldBlock occurred returns TunnelError.
UdpErrorsSurface ==
    [][(lastStep'.op \in TransportOps /\ lastStep'.arg > 0) =>
           lastStep'.ret = "TunnelError"]_vars

\* C29: a WarpTunnel::poll goes through transport poll, stack poll, TX drain
\* and tick in this order: the packets of the transport poll are appended to
\* the RX queue before the one stack poll; then each turn of the drain hands the
\* packet at the front of the TX queue to send_ip and takes it off the queue,
\* nothing else touching the TX queue; the tick, and with it the Ok, comes only
\* when the TX queue is empty, and leaves it empty.
PollOrder ==
    /\ [][wt'.pc # wt.pc =>
             <<wt.pc, wt'.pc>> \in {<<"idle", "stack">>, <<"stack", "drain">>,
                                    <<"drain", "idle">>}]_vars
    /\ [][(wt.pc = "idle" /\ wt'.pc = "stack") =>
             /\ lastStep'.op = "poll" /\ lastStep'.ret = "Ok"
             /\ wt'.rx_queue = wt.rx_queue \o Unwrap(lastStep'.resp)
             /\ wt'.tx_queue = wt.tx_queue
             /\ wt'.sent = <<>>]_vars
    /\ [][(wt.pc = "stack" /\ wt'.pc = "drain") =>
             lastStep'.op = "stack" /\ wt'.sent = wt.sent]_vars
    /\ [][(wt.pc = "drain" /\ wt' # wt) =>
             IF wt.tx_queue # <<>>
             THEN /\ lastStep'.op = "send_ip"
                  /\ wt'.sent = Append(wt.sent, Head(wt.tx_queue))
                  /\ wt'.tx_queue = Tail(wt.tx_queue)
                  /\ wt'.pc = (IF lastStep'.ret = "Ok" THEN "drain" ELSE "idle")
             ELSE /\ lastStep'.op = "tick" /\ lastStep'.ret = "Ok"
                  /\ wt'.pc = "idle"
                  /\ wt'.tx_queue = <<>> /\ wt'.sent = wt.sent]_vars
    /\ [][(lastStep'.op = "tick") => (wt.pc = "drain" /\ wt.tx_queue = <<>>)]_vars

\* C29 witness: a poll has returned Ok after the stack consumed a received
\* packet and two packets were handed to send_ip in the order of the TX queue
PollOrderWitness ==
    /\ lastStep.op = "tick" /\ lastStep.ret = "Ok"
    /\ wt.pc = "idle"
    /\ wt.sent = <<"p1", "p2">>
    /\ wt.tx_queue = <<>>
    /\ wt.connected

\* C30 as claimed: between the operations of the facade, is_connected() of the
\* tunnel equals is_connected() of its transport.
ConnectedMirrorsTransport ==
    wt.pc = "idle" => is_connected(wt) = transport_is_connected(wt)

\* ------------------------------------------------------------------------
\* Concurrent fetches of one URL (SpecIdem)
\* ------------------------------------------------------------------------

\* the positions of the cache entries with key u
EntriesFor(cache, u) == { i \in 1..Len(cache) : cache[i].key = u }

\* C31: fetches of the same uncached URL that run concurrently are not
\* deduplicated: each one that went to the network returns from_cache = false;
\* every insert into the cache of an initialized proxy leaves exactly one entry
\* for the URL, holding the response of the fetch that inserts, so after both
\* the entry is the response of the one that inserted last.
LastWriterWins ==
    /\ [](\A u \in ValidUrls : Cardinality(EntriesFor(CacheOf(proxy), u)) <= 1)
    /\ [](\A t \in Threads : (DoneOk(t) /\ usedNet[t]) => ~RespOf(t).from_cache)
    /\ [][\A t \in Threads :
             (pc[t] = "insert" /\ pc'[t] = "done" /\ IsSome(proxy)) =>
                 LET cache == CacheOf(proxy')
                 IN /\ Cardinality(EntriesFor(cache, turl[t])) = 1
                    /\ \A i \in EntriesFor(cache, turl[t]) : cache[i].value = RespOf(t)]_vars

\* C31 witness: two callers have fetched the same URL from the network and got
\* different responses, both with from_cache = false; the cache holds one entry
\* for the URL, and it is the response of the second caller, not of the first
LastWriterWinsWitness ==
    \E t \in Callers, t2 \in Callers :
        /\ t # t2 /\ turl[t] = turl[t2]
        /\ DoneOk(t) /\ DoneOk(t2) /\ usedNet[t] /\ usedNet[t2]
        /\ ~RespOf(t).from_cache /\ ~RespOf(t2).from_cache
        /\ RespOf(t).data # RespOf(t2).data
        /\ Cardinality(EntriesFor(CacheOf(proxy), turl[t])) = 1
        /\ \A i \in EntriesFor(CacheOf(proxy), turl[t]) :
              CacheOf(proxy)[i].value = RespOf(t2)

\* ------------------------------------------------------------------------
\* SpecPoll: WireGuardTransport::poll statement by statement, over a socket
\* that delivers any datagrams and a machine that yields any results
\* ------------------------------------------------------------------------

\* the machine calls for one datagram after which the machine has nothing
\* further queued
MaxCalls == 3

\* what decapsulate can yield
DecapsulateResults ==
    { TunnResult("WriteToNetwork", "reply"), TunnResult("Done", ""), TunnResult("Err", "") }
    \cup { TunnResult(k, q) : k \in {"WriteToTunnelV4", "WriteToTunnelV6"}, q \in Packets }

IsPayload(result) == result.kind \in {"WriteToTunnelV4", "WriteToTunnelV6"}

\* what decapsulate can yield at its n-th call for a datagram
ResultsAt(n) ==
    IF n < MaxCalls THEN DecapsulateResults
    ELSE { r \in DecapsulateResults : r.kind \in {"Done", "Err"} }

\* the packet put at the front of the vector in place of the back
PushFront(packets, packet) == <<packet>> \o packets

\* Vec::push
Push(packets, packet) == Append(packets, packet)

\* tunnel.decapsulate(None, input, ..) yields result: the call and what the
\* machine produced are recorded
Decapsulate(tp, input, result) ==
    [tp EXCEPT !.result = result,
               !.calls = Append(@, input),
               !.produced = IF IsPayload(result) THEN Append(@, result.packet) ELSE @,
               !.written = IF result.kind = "WriteToNetwork" THEN Append(@, result.packet) ELSE @,
               !.errors = IF result.kind = "Err" THEN @ + 1 ELSE @]

\* poll is called: packets = Vec::new()
PollEnter ==
    /\ wt.tp.pc = "idle"
    /\ wt' = [wt EXCEPT !.tp = [NoPoll EXCEPT !.pc = "recv"]]

\* recv_from gives a datagram, which is handed to decapsulate
RecvDatagram(result) ==
    /\ wt.tp.pc = "recv"
    /\ wt.tp.received < MaxQueue
    /\ result \in ResultsAt(1)
    /\ wt' = [wt EXCEPT !.tp = [Decapsulate([wt.tp EXCEPT !.calls = <<>>], "datagram", result)
                                   EXCEPT !.pc = "loop", !.received = @ + 1]]

\* recv_from gives WouldBlock: the outer loop ends and poll returns Ok(packets)
RecvWouldBlock ==
    /\ wt.tp.pc = "recv"
    /\ wt' = [wt EXCEPT !.tp = [wt.tp EXCEPT !.pc = "idle", !.ret = "Ok",
                                            !.returned = wt.tp.packets]]

\* recv_from gives another error: poll returns TunnelError
RecvError ==
    /\ wt.tp.pc = "recv"
    /\ wt' = [wt EXCEPT !.tp = [wt.tp EXCEPT !.pc = "idle", !.ret = "TunnelError",
                                            !.returned = <<>>]]

\* the arm for WriteToNetwork: send_to, its result dropped, then decapsulate
\* with empty input
LoopWriteToNetwork(next) ==
    /\ wt.tp.pc = "loop"
    /\ wt.tp.result.kind = "WriteToNetwork"
    /\ next \in ResultsAt(Len(wt.tp.calls) + 1)
    /\ wt' = [wt EXCEPT !.tp = Decapsulate([wt.tp EXCEPT !.udp = Append(@, wt.tp.result.packet)],
                                           "empty", next)]

\* the arms for WriteToTunnelV4 and WriteToTunnelV6: packets.push, then
\* decapsulate with empty input
LoopWriteToTunnel(next) ==
    /\ wt.tp.pc = "loop"
    /\ IsPayload(wt.tp.result)
    /\ next \in ResultsAt(Len(wt.tp.calls) + 1)
    /\ wt' = [wt EXCEPT !.tp = Decapsulate([wt.tp EXCEPT !.packets = Push(@, wt.tp.result.packet)],
                                           "empty", next)]

\* the arms for Done and Err: break out of the inner loop
LoopBreak ==
    /\ wt.tp.pc = "loop"
    /\ wt.tp.result.kind \in {"Done", "Err"}
    /\ wt' = [wt EXCEPT !.tp = [wt.tp EXCEPT !.pc = "recv"]]

HistPoll(op) ==
    /\ lastStep' = [NoStep EXCEPT !.op = op]
    /\ UNCHANGED <<useLog, firstRet, lastRet, finishOrder, live, fresh, cancelled, ctCheck>>

NextPoll ==
    \/ PollEnter /\ HistPoll("poll") /\ TunnelFrame
    \/ (\E result \in DecapsulateResults : RecvDatagram(result)) /\ HistPoll("datagram") /\ TunnelFrame
    \/ RecvWouldBlock /\ HistPoll("would_block") /\ TunnelFrame
    \/ RecvError /\ HistPoll("error") /\ TunnelFrame
    \/ (\E next \in DecapsulateResults : LoopWriteToNetwork(next)) /\ HistPoll("send_to") /\ TunnelFrame
    \/ (\E next \in DecapsulateResults : LoopWriteToTunnel(next)) /\ HistPoll("push") /\ TunnelFrame
    \/ LoopBreak /\ HistPoll("break") /\ TunnelFrame

SpecPoll == Init /\ [][NextPoll]_vars

\* C32: poll receives until recv_from would block, and then returns Ok; for
\* each datagram the machine is called once with the datagram and then with
\* empty input until it yields Done (or Err); each network packet the machine
\* yields is sent before the machine is called again and each payload is
\* collected; the payloads returned are all those the machine produced in the
\* poll, in that order; an Err of the machine ends the work on its datagram
\* only: the poll goes back to recv_from with the collected payloads kept.
PollDrainsSocket ==
    /\ [][(wt.tp.pc = "recv" /\ wt'.tp.pc = "idle" /\ wt'.tp.ret = "Ok") =>
             (lastStep'.op = "would_block" /\ wt'.tp.returned = wt.tp.produced)]_vars
    /\ [][(wt.tp.pc = "recv" /\ lastStep'.op = "would_block") =>
             (wt'.tp.pc = "idle" /\ wt'.tp.ret = "Ok")]_vars
    /\ [](wt.tp.pc = "recv" => (wt.tp.packets = wt.tp.produced /\ wt.tp.udp = wt.tp.written))
    /\ [](wt.tp.pc = "loop" =>
             /\ wt.tp.calls = <<"datagram">> \o [i \in 1..(Len(wt.tp.calls) - 1) |-> "empty"]
             /\ wt.tp.packets \o (IF IsPayload(wt.tp.result) THEN <<wt.tp.result.packet>> ELSE <<>>)
                   = wt.tp.produced
             /\ wt.tp.udp \o (IF wt.tp.result.kind = "WriteToNetwork"
                              THEN <<wt.tp.result.packet>> ELSE <<>>) = wt.tp.written)
    /\ [][(wt.tp.pc = "loop" /\ wt'.tp # wt.tp) =>
             IF wt.tp.result.kind \in {"Done", "Err"}
             THEN wt'.tp.pc = "recv" /\ wt'.tp.packets = wt.tp.packets
             ELSE wt'.tp.pc = "loop" /\ wt'.tp.calls = Append(wt.tp.calls, "empty")]_vars

\* C32 witness: a poll over two datagrams, on one of which the machine yielded
\* Err, and with a reply sent, has returned two payloads in the order of their
\* production
PollDrainsSocketWitness ==
    /\ wt.tp.pc = "idle" /\ wt.tp.ret = "Ok"
    /\ wt.tp.returned = <<"p1", "p2">>
    /\ wt.tp.errors > 0
    /\ wt.tp.udp # <<>>
    /\ wt.tp.received = MaxQueue

\* ------------------------------------------------------------------------
\* SpecCap: fetches, batches, clear_cache and status calls on a cache of
\* capacity 1 or of the fallback capacity, with the last step recorded
\* ------------------------------------------------------------------------
CapCacheSizes == {0, 1}

\* the one caller of proxy_fetch_image beside the batch
CapCaller == CHOOSE t \in Callers : TRUE

CapUrlLists == { <<"https://host/a", "https://host/b">> }

NextCap ==
    \/ \E path \in StoragePaths, n \in CapCacheSizes :
          proxy_init(path, n, None, TRUE)
              /\ HistLife("init", n, proxy_init_result(proxy, TRUE), None)
    \/ proxy_clear_cache /\ HistLife("clear", 0, "Ok", None)
    \/ StatusCall /\ HistLife("status", 0, "Ok", Some(proxy_status(proxy)))
    \/ \E u \in LifeUrls :
          proxy_fetch_image(CapCaller, u, None) /\ HistFetch
    \/ ReturnAny /\ HistFetch
    \/ (\E urls \in CapUrlLists : proxy_fetch_images_batch(urls, MaxUrls)) /\ HistFetch
    \/ (\E t \in Tasks : TaskAcquire(t)) /\ HistFetch
    \/ (\E t \in Tasks : TaskFinish(t)) /\ HistFetch
    \/ BatchCollect /\ HistFetch
    \/ BatchReturn /\ HistFetch
    \/ BatchEnd /\ HistFetch
    \/ LookupAny /\ HistFetch
    \/ SendAny({}, {1}) /\ HistFetch
    \/ BodyAny /\ HistFetch
    \/ InsertAny /\ HistFetch

SpecCap == Init /\ [][NextCap]_vars

\* C33: the state that proxy_init creates has a cache of capacity
\* max_cache_size when that is at least 1 and of capacity 100 when it is 0;
\* the capacity stays as it is while the state lives; and under every
\* interleaving of fetches, batches and clear_cache the cache holds at most that many entries, as does every status.cache_size.
CacheWithinCapacity ==
    /\ [][(lastStep'.op = "init" /\ IsNone(proxy) /\ IsSome(proxy')) =>
             Unwrap(proxy').cap = (IF lastStep'.arg >= 1 THEN lastStep'.arg
                                   ELSE DEFAULT_CACHE_SIZE)]_vars
    /\ [][(IsSome(proxy) /\ IsSome(proxy')) => Unwrap(proxy').cap = Unwrap(proxy).cap]_vars
    /\ [](IsSome(proxy) => Len(CacheOf(proxy)) <= Unwrap(proxy).cap)
    /\ []((lastStep.op = "status" /\ IsSome(proxy)) =>
             Unwrap(lastStep.status).cache_size <= Unwrap(proxy).cap)

\* C33 witness: in a cache of capacity 1, during a batch, two URLs have been
\* inserted since the init, and the cache holds one entry
CacheWithinCapacityWitness ==
    /\ IsSome(proxy) /\ Unwrap(proxy).cap = 1
    /\ Cardinality(fresh) = 2
    /\ Len(CacheOf(proxy)) = 1
    /\ bpc # "idle"

\* ------------------------------------------------------------------------
\* http.rs: guess_mime_type and validate_image_data.  Data is a sequence of
\* bytes (0..255); a decoded string is a sequence of code points
\* ------------------------------------------------------------------------

\* the bytes of the start of the data that are searched for the SVG markers
SVG_WINDOW == 100

\* the bytes of "RIFF" and "WEBP"
B_RIFF == <<82, 73, 70, 70>>

B_WEBP == <<87, 69, 66, 80>>

\* the bytes of "<svg", "<?xml" and "<!DOCTYPE svg"
B_SVG == <<60, 115, 118, 103>>

B_XML == <<60, 63, 120, 109, 108>>

B_DOCTYPE == <<60, 33, 68, 79, 67, 84, 89, 80, 69, 32, 115, 118, 103>>

\* str::contains
Contains(s, p) == \E i \in 0..(Len(s) - Len(p)) : SubSeq(s, i + 1, i + Len(p)) = p

\* String::from_utf8_lossy on bytes that hold no multi-byte sequence: an ASCII
\* byte is its character, any other byte becomes U+FFFD
FromUtf8Lossy(bytes) == [i \in 1..Len(bytes) |-> IF bytes[i] < 128 THEN bytes[i] ELSE 65533]

\* &data[..min(100, data.len())], decoded
TextStart(data) == FromUtf8Lossy(SubSeq(data, 1, Min(SVG_WINDOW, Len(data))))

\* guess_mime_type
guess_mime_type(data) ==
    IF Len(data) < 4 THEN None
    ELSE LET m == SubSeq(data, 1, 4)
         IN IF m = <<137, 80, 78, 71>> THEN Some(CT_PNG)
            ELSE IF SubSeq(m, 1, 3) = <<255, 216, 255>> THEN Some(CT_JPEG)
            ELSE IF m = <<71, 73, 70, 56>> THEN Some(CT_GIF)
            ELSE IF m = B_RIFF /\ Len(data) >= 12 /\ SubSeq(data, 9, 12) = B_WEBP
                 THEN Some(CT_WEBP)
            ELSE IF SubSeq(m, 1, 2) = <<66, 77>> THEN Some(CT_BMP)
            ELSE IF m = <<0, 0, 1, 0>> THEN Some(CT_XICON)
            ELSE IF Len(data) >= 5 /\ (Contains(TextStart(data), B_SVG)
                                        \/ Contains(TextStart(data), B_XML))
                 THEN Some(CT_SVG)
            ELSE None

\* mime.split('/').nth(1).unwrap_or(""): what stands between the first and the
\* second '/'
MimeBase(mime) ==
    IF \E i \in 1..Len(mime) : mime[i] = "/"
    THEN LET k == CHOOSE i \in 1..Len(mime) :
                     mime[i] = "/" /\ \A j \in 1..(i - 1) : mime[j] # "/"
             rest == SubSeq(mime, k + 1, Len(mime))
         IN IF \E i \in 1..Len(rest) : rest[i] = "/"
            THEN SubSeq(rest, 1, (CHOOSE i \in 1..Len(rest) :
                                     rest[i] = "/" /\ \A j \in 1..(i - 1) : rest[j] # "/") - 1)
            ELSE rest
    ELSE <<>>

\* validate_image_data
validate_image_data(data, claimed_mime) ==
    IF data = <<>> THEN FALSE
    ELSE IF claimed_mime = CT_SVG
    THEN \/ Contains(TextStart(data), B_SVG)
         \/ Contains(TextStart(data), B_XML)
         \/ Contains(TextStart(data), B_DOCTYPE)
    ELSE LET detected == guess_mime_type(data)
         IN IF IsSome(detected)
            THEN \/ Unwrap(detected) = claimed_mime
                 \/ /\ Contains(MimeBase(claimed_mime), <<"i","c","o","n">>)
                    /\ Contains(MimeBase(Unwrap(detected)), <<"i","c","o","n">>)
            ELSE TRUE

\* ------------------------------------------------------------------------
\* SpecValidate: validate_image_data called on the starts of image files of
\* every kind and on a claimed type
\* ------------------------------------------------------------------------

\* n spaces
Spaces(n) == [i \in 1..n |-> 32]

\* whole files: a PNG, a JPEG, a GIF, a WebP, a RIFF file that is no WebP, a
\* BMP, an ICO, SVG texts, texts with the marker at the end of the first 100
\* bytes and across it, and a text without any marker
DataSamples ==
    { <<137, 80, 78, 71, 13, 10, 26, 10>>,
      <<255, 216, 255, 224, 0>>,
      <<71, 73, 70, 56, 57, 97>>,
      B_RIFF \o <<0, 0, 0, 0>> \o B_WEBP,
      B_RIFF \o <<0, 0, 0, 0>> \o <<87, 65, 86, 69>>,
      <<66, 77, 0, 0, 0>>,
      <<0, 0, 1, 0, 1, 0>>,
      B_SVG \o <<62>>,
      B_XML \o <<63, 62>>,
      B_DOCTYPE \o <<62>>,
      Spaces(SVG_WINDOW - 4) \o B_SVG \o <<62>>,
      Spaces(SVG_WINDOW - 2) \o B_SVG \o <<62>>,
      <<104, 105, 33, 32, 104, 105>> }

\* the data passed: every start of a sample
DataInputs == UNION { { SubSeq(d, 1, n) : n \in 0..Len(d) } : d \in DataSamples }

\* the claimed types passed
ClaimedTypes ==
    {CT_PNG, CT_JPEG, CT_GIF, CT_WEBP, CT_BMP, CT_XICON, CT_MSICON, CT_SVG, CT_HTML}

InitValidate ==
    /\ InitProgram
    /\ ctCheck \in { [data |-> d, claimed |-> c, result |-> None] :
                        d \in DataInputs, c \in ClaimedTypes }

\* validate_image_data(data, claimed) is called
ValidateCall ==
    /\ IsNone(ctCheck.result)
    /\ ctCheck' = [ctCheck EXCEPT
                      !.result = Some(validate_image_data(ctCheck.data, ctCheck.claimed))]
    /\ UNCHANGED <<proxy, fetchVars, batchVars, histVars, sideVars>>

NextValidate == ValidateCall

SpecValidate == InitValidate /\ [][NextValidate]_vars

\* the type whose signature the start of the data matches, by the signatures
\* PNG 89 50 4E 47, JPEG FF D8 FF ??, GIF 47 49 46 38, WebP 52 49 46 46 ?? ??
\* ?? ?? 57 45 42 50, BMP 42 4D, ICO 00 00 01 00
SignatureOf(data) ==
    IF StartsWith(data, <<137, 80, 78, 71>>) THEN Some(CT_PNG)
    ELSE IF Len(data) >= 4 /\ StartsWith(data, <<255, 216, 255>>) THEN Some(CT_JPEG)
    ELSE IF StartsWith(data, <<71, 73, 70, 56>>) THEN Some(CT_GIF)
    ELSE IF Len(data) >= 12 /\ StartsWith(data, B_RIFF) /\ SubSeq(data, 9, 12) = B_WEBP
         THEN Some(CT_WEBP)
    ELSE IF StartsWith(data, <<66, 77>>) THEN Some(CT_BMP)
    ELSE IF StartsWith(data, <<0, 0, 1, 0>>) THEN Some(CT_XICON)
    ELSE None

IconTypes == {CT_XICON, CT_MSICON}

\* C34 as claimed: validate_image_data is false for empty data; for data whose
\* start matches a binary signature and a claimed type other than
\* image/svg+xml it is true exactly when the claimed type is the detected one
\* or both are icon types; for claimed image/svg+xml it is true exactly when
\* the first 100 bytes contain "<svg", "<?xml" or "<!DOCTYPE svg".
ValidateAsClaimed ==
    IsSome(ctCheck.result) =>
        LET data == ctCheck.data
            claimed == ctCheck.claimed
            r == Unwrap(ctCheck.result)
            window == SubSeq(data, 1, Min(SVG_WINDOW, Len(data)))
        IN /\ data = <<>> => ~r
           /\ (claimed = CT_SVG /\ data # <<>>) =>
                 (r <=> (Contains(window, B_SVG) \/ Contains(window, B_XML)
                           \/ Contains(window, B_DOCTYPE)))
           /\ (claimed # CT_SVG /\ IsSome(SignatureOf(data))) =>
                 (r <=> \/ claimed = Unwrap(SignatureOf(data))
                        \/ (claimed \in IconTypes /\ Unwrap(SignatureOf(data)) \in IconTypes))

\* ------------------------------------------------------------------------
\* SpecSockets: tcp_connect, tcp_close and tcp_remove on one tunnel, every
\* connect succeeding or failing
\* ------------------------------------------------------------------------

\* the number of buffers up to which tcp_connect is followed
MaxBuffers == 2 * MAX_TCP_CONNECTIONS + 2

NextSockets ==
    \/ \E connect_ok \in BOOLEAN :
          /\ wt.buffers < MaxBuffers
          /\ tcp_connect(connect_ok)
          /\ HistTunnel("tcp_connect", tcp_connect_result(connect_ok), None)
          /\ TunnelFrame
    \/ tcp_close /\ HistTunnel("tcp_close", NoErrors, None) /\ TunnelFrame
    \/ tcp_remove /\ HistTunnel("tcp_remove", NoErrors, None) /\ TunnelFrame

SpecSockets == Init /\ [][NextSockets]_vars

\* C35 as claimed: the TCP buffers allocated and not freed are never more
\* than 2 x MAX_TCP_CONNECTIONS; a failed tcp_connect keeps none, and
\* tcp_remove frees the two buffers of the connection it removes.
TcpBuffersBounded ==
    /\ [](wt.buffers <= 2 * MAX_TCP_CONNECTIONS)
    /\ [][(lastStep'.op = "tcp_connect" /\ lastStep'.ret = "TunnelError") =>
             wt'.buffers = wt.buffers]_vars
    /\ [][lastStep'.op = "tcp_remove" => wt'.buffers = wt.buffers - 2]_vars

\* ------------------------------------------------------------------------
\* SpecBatchLive: one batch after another, for max_concurrent 0, 1 and 2,
\* where the runtime keeps running its tasks and every fetch goes on to its
\* end: a step of a task, of a fetch or of the collecting loop that stays
\* possible is eventually taken
\* ------------------------------------------------------------------------
LiveMaxConcurrents == {0, 1, 2}

LiveUrlLists == UNION { [1..n -> LifeUrls] : n \in 1..MaxUrls }

\* the request of task t ends by the client's timeout
SendTimeout(t) ==
    NetSend(t, [kind |-> "timeout",
                resp |-> HttpResponse(0, None, None, turl[t], Body(turl[t], 0, 0))])

\* the steps that are eventually taken while they stay possible: the runtime
\* runs a task that can go on, a semaphore wakes a waiter when it has a permit,
\* a request ends by the client's timeout at the latest, and the collecting
\* loop goes on when the handle it awaits is ready
BatchProgress ==
    \/ (\E t \in Tasks : TaskAcquire(t)) /\ NoHist
    \/ (\E t \in Tasks : TaskFinish(t)) /\ NoHist
    \/ BatchCollect /\ NoHist
    \/ BatchReturn /\ NoHist
    \/ LookupAny /\ NoHist
    \/ (\E t \in Tasks : SendTimeout(t)) /\ NoHist
    \/ BodyAny /\ NoHist
    \/ InsertAny /\ NoHist

NextBatchLive ==
    \/ InitAny(BatchCacheSizes) /\ NoHist
    \/ (\E urls \in LiveUrlLists, mc \in LiveMaxConcurrents :
           proxy_fetch_images_batch(urls, mc)) /\ NoHist
    \/ BatchEnd /\ NoHist
    \/ (\E t \in Tasks : TaskAcquire(t)) /\ NoHist
    \/ (\E t \in Tasks : TaskFinish(t)) /\ NoHist
    \/ BatchCollect /\ NoHist
    \/ BatchReturn /\ NoHist
    \/ LookupAny /\ NoHist
    \/ SendAny({"timeout"}, {1}) /\ NoHist
    \/ BodyAny /\ NoHist
    \/ InsertAny /\ NoHist

SpecBatchLive == Init /\ [][NextBatchLive]_vars /\ WF_vars(BatchProgress)

\* C36 as claimed: every batch that was called, whatever its max_concurrent,
\* eventually returns its result list.
BatchTerminates ==
    (bpc # "idle") ~> (bpc = "returned" /\ bret = Some("Ok"))

\* ------------------------------------------------------------------------
\* SpecLock: fetch_image_internal with the write guard of the state cell made
\* explicit: state.write().await gives the guard when the lock is free, and the
\* guard is dropped at the end of the block that took it.  The lifecycle calls
\* take the lock for the whole of their step
\* ------------------------------------------------------------------------

\* a guard that stays with the fetch when the lookup misses
GuardKeptOnMiss(t, at) == IF at = "send" THEN Some(t) ELSE None

\* the lock when the fetch of thread t leaves the block of the lookup or of the
\* insert for the position at: the guard has gone out of scope
GuardDropped(t, at) == None

\* state.write().await of the lookup block and of the insert block
StateWrite(t) ==
    /\ pc[t] \in {"lookup", "insert"}
    /\ IsNone(lock)
    /\ lock' = Some(t)
    /\ UNCHANGED <<proxy, fetchVars, batchVars>>

\* the block of the lookup, with the guard held, to its end
LookupBlock(t) ==
    /\ lock = Some(t)
    /\ CacheLookup(t)
    /\ lock' = GuardDropped(t, pc'[t])

\* the block of the insert, with the guard held, to its end
InsertBlock(t) ==
    /\ lock = Some(t)
    /\ CacheInsert(t)
    /\ lock' = GuardDropped(t, pc'[t])

\* a lifecycle call gets the lock, and gives it back when it returns
LockFree == IsNone(lock) /\ UNCHANGED lock

\* lastStep records the lifecycle calls that went through
HistLock(op) ==
    /\ lastStep' = [NoStep EXCEPT !.op = op]
    /\ UNCHANGED <<useLog, firstRet, lastRet, finishOrder, live, fresh, cancelled,
                   ctCheck, store, prov, wt>>

NextLock ==
    \/ LockFree /\ InitAny(BatchCacheSizes) /\ HistLock("init")
    \/ LockFree /\ proxy_shutdown /\ HistLock("shutdown")
    \/ LockFree /\ proxy_clear_cache /\ HistLock("clear")
    \/ LockFree /\ StatusCall /\ HistLock("status")
    \/ CallAny(LifeUrls) /\ UNCHANGED lock /\ HistLock("fetch")
    \/ ReturnAny /\ UNCHANGED lock /\ HistLock("fetch")
    \/ (\E t \in Callers : StateWrite(t)) /\ HistLock("fetch")
    \/ (\E t \in Callers : LookupBlock(t)) /\ HistLock("fetch")
    \/ SendAny({"timeout"}, {1}) /\ UNCHANGED lock /\ HistLock("fetch")
    \/ BodyAny /\ UNCHANGED lock /\ HistLock("fetch")
    \/ (\E t \in Callers : InsertBlock(t)) /\ HistLock("fetch")

SpecLock == Init /\ [][NextLock]_vars

\* the fetches whose network request is in progress
OnNetwork == { t \in Threads : pc[t] \in {"send", "body"} }

\* C37: a fetch whose network request is in progress does not hold the lock of
\* the state cell; the lock is held only by a fetch inside its lookup block or
\* its insert block; and so, while a fetch is on the network, the lock is free
\* for proxy_status, proxy_clear_cache, proxy_shutdown, proxy_init and the
\* lookups of other fetches, or held by a fetch that is inside such a block.
NoLockOnNetwork ==
    /\ [](\A t \in OnNetwork : lock # Some(t))
    /\ [](\A t \in Threads : lock = Some(t) => pc[t] \in {"lookup", "insert"})
    /\ []((OnNetwork # {} /\ IsSome(lock)) => Unwrap(lock) \notin OnNetwork)
    /\ [][(lastStep'.op \in {"init", "shutdown", "clear", "status"}) => IsNone(lock)]_vars

\* C37 witness: while one fetch waits for the body of its response, the other
\* fetch holds the lock of the initialized proxy for its lookup
NoLockOnNetworkWitness ==
    \E t \in Callers, t2 \in Callers :
        /\ pc[t] = "body"
        /\ pc[t2] = "lookup" /\ lock = Some(t2)
        /\ IsSome(proxy)

\* ------------------------------------------------------------------------
\* SpecStale: fetches with proxy_init and proxy_shutdown calls beside them,
\* with the record of the fetches that were in progress at a shutdown
\* ------------------------------------------------------------------------

\* the fetches that have begun and not ended
InProgress == { t \in Threads : pc[t] \in {"lookup", "send", "body", "insert"} }

\* cancelled follows the step: a shutdown adds the fetches in progress, and a
\* thread leaves the set when its fetch has returned
HistStale(op) ==
    /\ cancelled' = IF op = "shutdown" THEN cancelled \cup InProgress
                    ELSE { t \in cancelled : pc'[t] # "idle" }
    /\ lastStep' = [NoStep EXCEPT !.op = op]
    /\ UNCHANGED <<useLog, firstRet, lastRet, finishOrder, live, fresh, ctCheck, sideVars>>

NextStale ==
    \/ InitAny(BatchCacheSizes) /\ HistStale("init")
    \/ proxy_shutdown /\ HistStale("shutdown")
    \/ CallAny(LifeUrls) /\ HistStale("fetch")
    \/ ReturnAny /\ HistStale("fetch")
    \/ LookupAny /\ HistStale("fetch")
    \/ SendAny({"timeout"}, {1}) /\ HistStale("fetch")
    \/ BodyAny /\ HistStale("fetch")
    \/ InsertAny /\ HistStale("fetch")

SpecStale == Init /\ [][NextStale]_vars

\* C38 as claimed: a fetch that was in progress at a proxy_shutdown does not
\* insert its response into a cache: when it comes to its insert, the state
\* that a later proxy_init created is left as it is.
NoStaleInsert ==
    [][\A t \in cancelled :
          (pc[t] = "insert" /\ pc'[t] = "done") => CacheOf(proxy') = CacheOf(proxy)]_vars

\* ------------------------------------------------------------------------
\* SpecDevice: WarpTunnel::poll by one task, with interface.poll taken apart
\* into the calls it makes on the device: receive, and consume on the RX token
\* ------------------------------------------------------------------------

\* a receive that hands out its tokens whatever the queue holds
DeviceReceiveAlways(q) == TRUE

\* VirtualDevice::receive: None when the RX queue is empty, the two tokens
\* otherwise
DeviceReceive(q) == q # <<>>

\* interface.poll calls device.receive: with tokens it goes on to consume,
\* with None it returns
StackReceive ==
    /\ wt.pc = "stack"
    /\ ~wt.dev.token
    /\ wt' = IF DeviceReceive(wt.rx_queue)
             THEN [wt EXCEPT !.dev.token = TRUE]
             ELSE [wt EXCEPT !.pc = "drain"]

\* VirtualRxToken::consume: pop_front and f(&packet), or unreachable!(); the
\* stack answers with the packets out, through the TX token
StackConsume(out) ==
    /\ wt.pc = "stack"
    /\ wt.dev.token
    /\ Len(wt.tx_queue) + Len(out) <= MaxQueue
    /\ wt' = IF wt.rx_queue # <<>>
             THEN [wt EXCEPT !.dev.token = FALSE,
                             !.dev.delivered = Append(@, PopFront(wt.rx_queue).packet),
                             !.rx_queue = PopFront(wt.rx_queue).rest,
                             !.tx_queue = @ \o out]
             ELSE [wt EXCEPT !.dev.token = FALSE, !.dev.unreachable = TRUE]

\* WarpTunnel::poll is called: what the device delivered in the last poll is
\* forgotten, then transport.poll() as in PollTransport
PollTransportDevice(ds, ending, reply_ok) ==
    /\ ~wt.dev.unreachable
    /\ LET r == transport_poll(wt.session, wt.initiated, ds, ending, reply_ok)
       IN /\ wt.pc = "idle"
          /\ Len(wt.rx_queue) + Len(r.packets) <= MaxQueue
          /\ wt' = IF r.ok
                   THEN [wt EXCEPT !.pc = "stack", !.session = r.session,
                                   !.rx_queue = @ \o r.packets, !.sent = <<>>,
                                   !.dev.delivered = <<>>]
                   ELSE [wt EXCEPT !.session = r.session, !.sent = <<>>,
                                   !.dev.delivered = <<>>]

NextDevice ==
    \/ \E tr \in TunnResults, send_ok \in BOOLEAN :
          /\ connect(tr, send_ok)
          /\ HistTunnel("initiate_handshake", initiate_handshake(tr, send_ok), None)
          /\ TunnelFrame
    \/ \E ds \in SeqsUpTo(Datagrams, MaxQueue), ending \in {"would_block", "error"} :
          /\ PollTransportDevice(ds, ending, TRUE)
          /\ LET r == transport_poll(wt.session, wt.initiated, ds, ending, TRUE)
             IN HistTunnel("poll", r, Some(r.packets))
          /\ TunnelFrame
    \/ StackReceive /\ HistTunnel("receive", NoErrors, None) /\ TunnelFrame
    \/ (\E out \in SeqsUpTo(Packets, 1) : StackConsume(out))
          /\ HistTunnel("consume", NoErrors, None) /\ TunnelFrame
    \/ \E tr \in TunnResults, send_ok \in BOOLEAN :
          PollDrain(tr, send_ok) /\ HistTunnel("send_ip", send_ip(tr, send_ok), None)
          /\ TunnelFrame
    \/ \E due \in BOOLEAN, tr \in TunnResults, send_ok \in BOOLEAN, expired \in BOOLEAN :
          /\ PollTick(due, tr, send_ok, expired)
          /\ HistTunnel("tick", tick(due, tr, send_ok), None)
          /\ TunnelFrame

SpecDevice == Init /\ [][NextDevice]_vars

\* C39: receive hands out an RX token only when the RX queue is not empty;
\* with one task driving poll, the queue still holds a packet whenever a token
\* is outstanding, so consume never comes to unreachable!(); and each consume
\* takes exactly the oldest packet off the queue and passes it to the stack.
RxTokenSafe ==
    /\ [](~wt.dev.unreachable)
    /\ [](wt.dev.token => wt.rx_queue # <<>>)
    /\ [][(~wt.dev.token /\ wt'.dev.token) =>
             (wt.rx_queue # <<>> /\ wt'.rx_queue = wt.rx_queue)]_vars
    /\ [][(wt.dev.token /\ ~wt'.dev.token) =>
             /\ wt'.rx_queue = Tail(wt.rx_queue)
             /\ wt'.dev.delivered = Append(wt.dev.delivered, Head(wt.rx_queue))]_vars

\* C39 witness: in one poll two packets were received and both tokens
\* consumed, the packets passed to the stack oldest first, and the next receive
\* found the queue empty
RxTokenSafeWitness ==
    /\ wt.dev.delivered = <<"p1", "p2">>
    /\ wt.rx_queue = <<>>
    /\ ~wt.dev.token
    /\ wt.pc = "drain"

\* ------------------------------------------------------------------------
\* tunnel.rs: the interface address in WarpTunnel::new
\* ------------------------------------------------------------------------

RECURSIVE Split(_, _)
\* str::split(sep), collected: the pieces of s between the separators
Split(s, sep) ==
    IF \E i \in 1..Len(s) : s[i] = sep
    THEN LET k == CHOOSE i \in 1..Len(s) : s[i] = sep /\ \A j \in 1..(i - 1) : s[j] # sep
         IN <<SubSeq(s, 1, k - 1)>> \o Split(SubSeq(s, k + 1, Len(s)), sep)
    ELSE <<s>>

\* str::parse::<u8>(): digits after an optional '+', of a value up to 255
ParseU8(s) ==
    LET digits == IF s # <<>> /\ Head(s) = "+" THEN Tail(s) ELSE s
        r == ParseNatFrom(digits, 0)
    IN IF digits = <<>> THEN None
       ELSE IF IsSome(r) /\ Unwrap(r) <= 255 THEN r ELSE None

RECURSIVE FilterMapParse(_)
\* pieces.filter_map(|s| s.parse().ok()).collect(): the values of the pieces
\* that parse, in order
FilterMapParse(pieces) ==
    IF pieces = <<>> THEN <<>>
    ELSE (IF IsSome(ParseU8(Head(pieces))) THEN <<Unwrap(ParseU8(Head(pieces)))>> ELSE <<>>)
         \o FilterMapParse(Tail(pieces))

\* address_ipv4.split('/').next()
WithoutPrefix(address_ipv4) == Split(address_ipv4, "/")[1]

\* WarpTunnel::new, as to the address: TunnelError unless four values were
\* collected; else local_ipv4_octets, which is also the address pushed to the
\* interface
WarpTunnelNew(address_ipv4) ==
    LET parts == FilterMapParse(Split(WithoutPrefix(address_ipv4), "."))
    IN IF Len(parts) # 4
       THEN [ok |-> FALSE, local_ipv4_octets |-> <<>>, interface_addr |-> <<>>]
       ELSE [ok |-> TRUE, local_ipv4_octets |-> parts, interface_addr |-> parts]

\* the local address of the endpoint that tcp_connect connects from
TcpLocalAddr(tunnel) == tunnel.local_ipv4_octets

\* ------------------------------------------------------------------------
\* SpecAddr: WarpTunnel::new on an interface address, then a tcp_connect
\* ------------------------------------------------------------------------

RECURSIVE Join(_, _)
\* the pieces with sep between them
Join(pieces, sep) ==
    IF Len(pieces) = 1 THEN pieces[1]
    ELSE pieces[1] \o <<sep>> \o Join(Tail(pieces), sep)

\* the pieces of an address: octets, a number that is no octet, a word, nothing
AddrPieces == { <<"1","0">>, <<"2">>, <<"2","5","6">>, <<"x">>, <<>> }

\* the addresses: three to five pieces, with and without a prefix length
AddressInputs ==
    { Join(p, ".") \o suffix :
        p \in UNION { [1..n -> AddrPieces] : n \in 3..5 },
        suffix \in { <<>>, <<"/","3","2">> } }

InitAddr ==
    /\ InitProgram
    /\ ctCheck \in { [address |-> a, tunnel |-> None, local |-> None] : a \in AddressInputs }

\* WarpTunnel::new(config) with config.interface.address_ipv4 = address
NewTunnel ==
    /\ IsNone(ctCheck.tunnel)
    /\ ctCheck' = [ctCheck EXCEPT !.tunnel = Some(WarpTunnelNew(ctCheck.address))]
    /\ UNCHANGED <<proxy, fetchVars, batchVars, histVars, sideVars>>

\* tcp_connect on the tunnel: the local endpoint is built
TcpConnectLocal ==
    /\ IsSome(ctCheck.tunnel) /\ Unwrap(ctCheck.tunnel).ok
    /\ IsNone(ctCheck.local)
    /\ ctCheck' = [ctCheck EXCEPT !.local = Some(TcpLocalAddr(Unwrap(ctCheck.tunnel)))]
    /\ UNCHANGED <<proxy, fetchVars, batchVars, histVars, sideVars>>

NextAddr == NewTunnel \/ TcpConnectLocal

SpecAddr == InitAddr /\ [][NextAddr]_vars

\* a decimal octet: one or more digits of a value up to 255
IsOctet(s) ==
    /\ s # <<>>
    /\ \A i \in 1..Len(s) : IsDigit(s[i])
    /\ Unwrap(ParseNatFrom(s, 0)) <= 255

\* four decimal octets with dots between them
IsDottedQuad(s) ==
    LET pieces == Split(s, ".")
    IN Len(pieces) = 4 /\ \A i \in 1..4 : IsOctet(pieces[i])

\* C40 as claimed: WarpTunnel::new succeeds exactly when the address without
\* its prefix length is four dot-separated decimal octets, and then the address
\* of the interface and the local address of tcp_connect are those octets; any
\* other address is rejected with TunnelError.
AddressAsClaimed ==
    IsSome(ctCheck.tunnel) =>
        LET s == WithoutPrefix(ctCheck.address)
            tunnel == Unwrap(ctCheck.tunnel)
        IN /\ tunnel.ok <=> IsDottedQuad(s)
           /\ tunnel.ok =>
                 /\ tunnel.interface_addr =
                       [i \in 1..4 |-> Unwrap(ParseNatFrom(Split(s, ".")[i], 0))]
                 /\ IsSome(ctCheck.local) => Unwrap(ctCheck.local) = tunnel.interface_addr

====
